---- MODULE Spec2Model ----
(***************************************************************************)
(* Model of the cdntest browser benchmark: the `run` command of            *)
(* bin/bench.js (cmdRun), the browser automation of lib/browser.js         *)
(* (runWarmup, runSingle, waitForImages, collectImageTimings), the report  *)
(* of lib/report.js (saveReport, computeSummary) and the statistics of     *)
(* lib/utils.js.                                                           *)
(*                                                                         *)
(* JavaScript values are encoded as follows.                               *)
(*   - a nullable value is a sequence of length <= 1: Null is <<>> and     *)
(*     Some(v) is <<v>>;                                                   *)
(*   - a non-integral number is a pair <<n, d>> with d > 0 (the rational   *)
(*     n / d); Math.round and toFixed(1) are computed on that rational;    *)
(*   - the times reported by the Resource Timing API are fractional        *)
(*     milliseconds; the model draws them in half milliseconds.            *)
(***************************************************************************)
EXTENDS Integers, Sequences, FiniteSets, TLC

(***************************************************************************)
(* Bounds of the model.                                                    *)
(***************************************************************************)
\* the largest --repeats value a run is started with
MaxRepeats == 1
\* The environment leaves the nominal path (a call throws, or the images of a
\* page do not simply all load) during at most one warmup visit or trial of a
\* run, and there at no more than this many await points
MaxDeviations == 2
\* the same for the study of a single trial: every await point of it may fail
TrialDeviations == 9
\* the largest number of images on a page in the study of a single trial
MaxImages == 2
\* --timeout-ms: the navigation timeout and maxWaitMs of waitForImages
MaxWaitMs == 400
\* the largest number of patterns given with --image-hosts
MaxPatterns == 2
\* the largest attempts argument withRetries is called with on its own
MaxAttempts == 3
\* the longest record list computeSummary and saveReport are called with on
\* their own, the list of Scenario A apart
MaxRecords == 2
\* the longest list median is called with on its own
MaxLen == 4
\* the longest host and the longest pattern matchHost is called with on its own
MaxHostLen == 4
MaxPatternLen == 4

(***************************************************************************)
(* Program constants.                                                      *)
(***************************************************************************)
PAGES == <<"page1", "page2", "page3">>
VARIANTS == <<"origin", "cdn">>
\* warmupRuns as passed by cmdRun
WarmupRuns == 2
\* the fallback of --delay-ms
DefaultDelayMs == 1000
\* pollMs of waitForImages
PollMs == 200

Null == <<>>
Some(v) == <<v>>
Val(o) == o[1]

Min2(a, b) == IF a <= b THEN a ELSE b
Max2(a, b) == IF a >= b THEN a ELSE b

RECURSIVE SeqSum(_)
SeqSum(s) == IF s = <<>> THEN 0 ELSE Head(s) + SeqSum(Tail(s))

RECURSIVE SeqMin(_)
SeqMin(s) == IF Len(s) = 1 THEN s[1] ELSE Min2(Head(s), SeqMin(Tail(s)))

RECURSIVE SeqMax(_)
SeqMax(s) == IF Len(s) = 1 THEN s[1] ELSE Max2(Head(s), SeqMax(Tail(s)))

\* Array.prototype.filter / map
Filter(s, P(_)) == SelectSeq(s, P)

Map(s, F(_)) == [k \in 1..Len(s) |-> F(s[k])]

\* Math.round of the rational n / d (d > 0): the nearest integer, ties upward
MathRound(n, d) == (2 * n + d) \div (2 * d)

(***************************************************************************)
(* collectImageTimings. An image of the page (already past the host        *)
(* filters) is [timing, complete, natW]: timing is Null or                 *)
(* Some([responseEnd, duration]) in half milliseconds, the resource-timing *)
(* entry whose name equals the image's URL.                                *)
(***************************************************************************)
HasTiming(img) == img.timing # Null

\* the entry pushed to imageTimings for one image, Null when nothing is pushed
ImageTimingOf(img) ==
  IF HasTiming(img)
    THEN Some([responseEnd |-> Some(Val(img.timing).responseEnd),
               duration |-> Some(Val(img.timing).duration),
               noTiming |-> FALSE])
  ELSE IF img.complete /\ img.natW > 0
    THEN Some([responseEnd |-> Null, duration |-> Null, noTiming |-> TRUE])
  ELSE Null

IsFailedImage(img) == ~HasTiming(img) /\ img.complete /\ img.natW = 0

TimingPushed(img) == ImageTimingOf(img) # Null
EntryOf(img) == Val(ImageTimingOf(img))
WithData(t) == t.responseEnd # Null /\ t.duration # Null
\* a start taken to be the end of the response
StartAtEnd(t) == Val(t.responseEnd)
StartOf(t) == Val(t.responseEnd) - Val(t.duration)
EndOf(t) == Val(t.responseEnd)
DurationOf(t) == Val(t.duration)
NotComplete(img) == ~img.complete

\* the snapshot returned from the page; times in half milliseconds,
\* avgImageMs the rational <<sum of durations, count>>
CollectImageTimings(imgData) ==
  LET imageTimings == Map(Filter(imgData, TimingPushed), EntryOf)
      failedUrls == Filter(imgData, IsFailedImage)
      timingsWithData == Filter(imageTimings, WithData)
      hasData == Len(timingsWithData) > 0
      starts == Map(timingsWithData, StartOf)
      ends == Map(timingsWithData, EndOf)
      durations == Map(timingsWithData, DurationOf)
      pending == Filter(imgData, NotComplete)
  IN [total |-> Len(imgData),
      loaded |-> Len(imageTimings),
      failed |-> Len(failedUrls),
      pending |-> Len(pending),
      imagesOnlyMs |-> IF hasData THEN Some(SeqMax(ends) - SeqMin(starts)) ELSE Null,
      avgImageMs |-> IF hasData THEN Some(<<SeqSum(durations), Len(timingsWithData)>>)
                     ELSE Null,
      sumImageMs |-> IF hasData THEN Some(SeqSum(durations)) ELSE Null]

(***************************************************************************)
(* collectImageTimings: the host filters. A hostname and a pattern are     *)
(* sequences of characters; an element is [hostname], Null for an image    *)
(* without a usable URL.                                                   *)
(***************************************************************************)
startsWith(s, prefix) == Len(prefix) <= Len(s) /\ SubSeq(s, 1, Len(prefix)) = prefix

endsWith(s, suffix) ==
  Len(suffix) <= Len(s) /\ SubSeq(s, Len(s) - Len(suffix) + 1, Len(s)) = suffix

\* String.prototype.indexOf(part, index): 0-based, -1 when not found
indexOf(s, part, index) ==
  LET found == {i \in index..(Len(s) - Len(part)) : SubSeq(s, i + 1, i + Len(part)) = part}
  IN IF found = {} THEN -1 ELSE CHOOSE i \in found : \A j \in found : i <= j

\* pattern.split("*").filter(Boolean); cur is the part being read
RECURSIVE SplitParts(_, _)
SplitParts(rest, cur) ==
  LET done == IF cur = <<>> THEN <<>> ELSE <<cur>>
  IN IF rest = <<>> THEN done
     ELSE IF Head(rest) = "*" THEN done \o SplitParts(Tail(rest), <<>>)
     ELSE SplitParts(Tail(rest), Append(cur, Head(rest)))

\* a search that lets a part start inside the part found before it
RECURSIVE PartsInOrderOverlapping(_, _, _)
PartsInOrderOverlapping(host, parts, index) ==
  IF parts = <<>> THEN TRUE
  ELSE LET found == indexOf(host, Head(parts), index)
       IN IF found = -1 THEN FALSE
          ELSE PartsInOrderOverlapping(host, Tail(parts), found + 1)

\* for (const part of parts) { found = host.indexOf(part, index); ... }
RECURSIVE PartsInOrder(_, _, _)
PartsInOrder(host, parts, index) ==
  IF parts = <<>> THEN TRUE
  ELSE LET found == indexOf(host, Head(parts), index)
       IN IF found = -1 THEN FALSE
          ELSE PartsInOrder(host, Tail(parts), found + Len(Head(parts)))

matchHost(host, pattern) ==
  IF pattern = <<>> \/ host = <<>> THEN FALSE
  ELSE IF \A k \in 1..Len(pattern) : pattern[k] # "*" THEN host = pattern
  ELSE LET parts == SplitParts(pattern, <<>>)
       IN IF Len(parts) = 0 THEN TRUE
          ELSE IF pattern[1] # "*" /\ ~startsWith(host, parts[1]) THEN FALSE
          ELSE IF pattern[Len(pattern)] # "*" /\ ~endsWith(host, parts[Len(parts)])
            THEN FALSE
          ELSE PartsInOrder(host, parts, 0)

\* an allowedHost for which an empty allow-list admits no host
allowedHostListed(host, allowHosts) ==
  \E k \in 1..Len(allowHosts) : matchHost(host, allowHosts[k])

allowedHost(host, allowHosts) ==
  Len(allowHosts) = 0 \/ \E k \in 1..Len(allowHosts) : matchHost(host, allowHosts[k])

includes(list, value) == \E k \in 1..Len(list) : list[k] = value

\* imgData: the elements with a URL that pass the ignore-list and the allow-list
FilterImgData(elements, ignoreHosts, allowHosts) ==
  LET hasUrl(e) == e.hostname # Null
      notIgnored(e) == ~includes(ignoreHosts, Val(e.hostname))
      allowed(e) == allowedHost(Val(e.hostname), allowHosts)
  IN SelectSeq(SelectSeq(SelectSeq(elements, hasUrl), notIgnored), allowed)

AdHost == <<"a", "d", ".", "a", "d", "r", "i", "v", "e", "r", ".", "r", "u">>
EvHost == <<"e", "v", ".", "a", "d", "r", "i", "v", "e", "r", ".", "r", "u">>
IGNORED_IMAGE_HOSTS == <<AdHost, EvHost>>

\* hostnames of the images of a page; the empty one is that of a data: URL
SubCdnHost ==
  <<"a", ".", "c", "d", "n", ".", "e", "x", "a", "m", "p", "l", "e", ".", "c", "o",
    "m">>
CdnHost == <<"c", "d", "n", ".", "e", "x", "a", "m", "p", "l", "e", ".", "c", "o", "m">>
OrgHost == <<"x", ".", "o", "r", "g">>
Hostnames == {SubCdnHost, CdnHost, AdHost, OrgHost, <<>>}

\* the patterns of --image-hosts
SubCdnPattern ==
  <<"*", ".", "c", "d", "n", ".", "e", "x", "a", "m", "p", "l", "e", ".", "c", "o",
    "m">>
HostPatterns ==
  {SubCdnPattern, CdnHost, <<"*">>, <<"a", "*">>, <<"*", ".", "*", "r", "u">>}

(***************************************************************************)
(* waitForImages: the decision taken on one snapshot inside the loop, and  *)
(* the value returned after the loop.                                      *)
(***************************************************************************)
\* a waitForImages that takes only an empty snapshot for "no target images"
NoImagesEmptyOnly(stats) == stats.total = 0

\* "no target images on page"
NoImages(stats) == stats.total = 0 \/ stats.total = stats.failed
\* "all images loaded (none pending)"
NonePending(stats) == stats.pending = 0
EarlyExit(stats) == NoImages(stats) \/ NonePending(stats)

EarlyReason(stats) ==
  IF NoImages(stats) THEN Some("no_images")
  ELSE IF stats.failed > 0 THEN Some("images_failed") ELSE Null

\* the object returned for a snapshot on which the loop exits early
EarlyReturn(stats) ==
  [timeout |-> FALSE, timeoutReason |-> EarlyReason(stats), stats |-> stats]

\* the object returned once the maximum wait has elapsed
TimeoutReturn(finalStats) ==
  [timeout |-> TRUE, timeoutReason |-> Some("timeout"), stats |-> finalStats]

(***************************************************************************)
(* lib/utils.js: statistics. Samples are integers; a result that may be    *)
(* fractional is a rational <<n, d>>.                                      *)
(***************************************************************************)
RECURSIVE InsertSorted(_, _)
InsertSorted(v, s) ==
  IF s = <<>> THEN <<v>>
  ELSE IF v <= Head(s) THEN <<v>> \o s
       ELSE <<Head(s)>> \o InsertSorted(v, Tail(s))

\* [...values].sort((a, b) => a - b)
RECURSIVE SortAsc(_)
SortAsc(s) == IF s = <<>> THEN <<>> ELSE InsertSorted(Head(s), SortAsc(Tail(s)))

\* a median that takes the upper of the two middle elements of a list of even length
medianUpper(values) ==
  IF Len(values) = 0 THEN Null
  ELSE LET sorted == SortAsc(values)
           mid == Len(sorted) \div 2
       IN Some(<<sorted[mid + 1], 1>>)

\* the argument after the call: [...values] is a copy, the argument is not sorted
ValuesAfterMedian(values) == values

median(values) ==
  IF Len(values) = 0 THEN Null
  ELSE LET sorted == SortAsc(values)
           mid == Len(sorted) \div 2
       IN IF Len(sorted) % 2 = 1
            THEN Some(<<sorted[mid + 1], 1>>)
            ELSE Some(<<sorted[mid] + sorted[mid + 1], 2>>)

\* a percentile that takes the element at index floor(p * n)
percentileFloor(values, pn, pd) ==
  IF Len(values) = 0 THEN Null
  ELSE LET sorted == SortAsc(values)
           idx == (pn * Len(sorted)) \div pd
       IN Some(sorted[Max2(0, Min2(Len(sorted) - 1, idx)) + 1])

\* percentile(values, pn / pd)
percentile(values, pn, pd) ==
  IF Len(values) = 0 THEN Null
  ELSE LET sorted == SortAsc(values)
           idx == ((pn * Len(sorted) + pd - 1) \div pd) - 1
       IN Some(sorted[Max2(0, Min2(Len(sorted) - 1, idx)) + 1])

\* mean(values), a rational
mean(values) == IF Len(values) = 0 THEN Null ELSE Some(<<SeqSum(values), Len(values)>>)

\* the sum of (n * v - s)^2 over the values: n^2 times the sum of the squared
\* differences from the mean s / n
RECURSIVE SquareDiffs(_, _, _)
SquareDiffs(values, n, s) ==
  IF values = <<>> THEN 0
  ELSE (n * Head(values) - s) * (n * Head(values) - s) + SquareDiffs(Tail(values), n, s)

\* stdDev(values): null, or the square root of the rational radicand
stdDev(values) ==
  IF Len(values) < 2 THEN Null
  ELSE LET n == Len(values)
       IN Some([radicand |-> <<SquareDiffs(values, n, SeqSum(values)), n * n * (n - 1)>>])

\* Math.round of the square root of the rational q >= 0
RoundSqrt(q) ==
  CHOOSE k \in 0..(q[1] \div q[2] + 1) :
    /\ k > 0 => (2 * k - 1) * (2 * k - 1) * q[2] <= 4 * q[1]
    /\ 4 * q[1] < (2 * k + 1) * (2 * k + 1) * q[2]

\* Math.round(x) of what stdDev returned: Math.round(null) is 0
RoundStdDev(o) == IF o = Null THEN 0 ELSE RoundSqrt(Val(o).radicand)

\* an improvement that divides by an origin value of 0 (the quotient is then
\* an infinity or NaN, here a rational of denominator 0)
improvementOfZero(originMs, cdnMs) ==
  IF originMs = Null \/ cdnMs = Null THEN Null
  ELSE Some(<<(Val(originMs)[1] * Val(cdnMs)[2] - Val(cdnMs)[1] * Val(originMs)[2]) * 100,
              Val(originMs)[1] * Val(cdnMs)[2]>>)

\* an improvement taken relative to the cdn time
improvementOverCdn(originMs, cdnMs) ==
  IF originMs = Null \/ cdnMs = Null THEN Null
  ELSE LET o == Val(originMs)
           c == Val(cdnMs)
       IN IF o[1] = 0 \/ c[1] = 0 THEN Null
          ELSE LET num == (o[1] * c[2] - c[1] * o[2]) * 100
                   den == c[1] * o[2]
               IN IF den > 0 THEN Some(<<num, den>>) ELSE Some(<<-num, -den>>)

\* improvement(originMs, cdnMs) on nullable rationals
improvement(originMs, cdnMs) ==
  IF originMs = Null \/ cdnMs = Null THEN Null
  ELSE LET o == Val(originMs)
           c == Val(cdnMs)
       IN IF o[1] = 0 THEN Null
          ELSE LET num == (o[1] * c[2] - c[1] * o[2]) * 100
                   den == o[1] * c[2]
               IN IF den > 0 THEN Some(<<num, den>>) ELSE Some(<<-num, -den>>)

\* Number.prototype.toFixed(1) of the rational q
toFixed1(q) ==
  LET neg == q[1] < 0
      tenths == MathRound(10 * (IF neg THEN -q[1] ELSE q[1]), q[2])
  IN (IF neg THEN "-" ELSE "") \o ToString(tenths \div 10) \o "."
       \o ToString(tenths % 10)

(***************************************************************************)
(* lib/report.js: the CSV report. A row is the sequence of its 19 fields   *)
(* as strings.                                                             *)
(***************************************************************************)
CSV_HEADER ==
  <<"timestamp", "page_id", "variant", "run", "images_ms", "avg_img_ms",
    "ttfb_ms", "lcp_ms", "images_total", "images_failed", "errors",
    "origin_median", "origin_p90", "origin_avg_img", "cdn_median", "cdn_p90",
    "cdn_avg_img", "improvement_%", "improvement_p90_%">>

\* `value ?? ""` inside Array.prototype.join, for a nullable integer
Cell(o) == IF o = Null THEN "" ELSE ToString(Val(o))

recordToCsvRow(record) ==
  <<record.timestamp_iso, record.page_id, record.variant,
    ToString(record.run_index + 1),
    Cell(record.images_loaded_ms), Cell(record.avg_image_ms),
    Cell(record.ttfb_ms), Cell(record.lcp_ms),
    ToString(record.images_total), ToString(record.images_failed),
    ToString(record.errors_count),
    "", "", "", "", "", "", "", "">>

IsOrigin(r) == r.variant = "origin"
IsCdn(r) == r.variant = "cdn"
\* a filter on truthiness, `(v) => v`, that drops a time of 0 too
Truthy(o) == o # Null /\ o # Some(0)
\* (v) => v != null
NotNull(o) == o # Null
ImagesLoadedOf(r) == r.images_loaded_ms
AvgImageOf(r) == r.avg_image_ms
ErrorsOf(r) == r.errors_count

\* Math.round of a nullable rational
RoundOpt(o) == IF o = Null THEN Null ELSE Some(MathRound(Val(o)[1], Val(o)[2]))
\* a nullable integer as a nullable rational
AsRat(o) == IF o = Null THEN Null ELSE Some(<<Val(o), 1>>)

computeSummary(records) ==
  LET origin == Filter(records, IsOrigin)
      cdn == Filter(records, IsCdn)
      originValues == Map(Filter(Map(origin, ImagesLoadedOf), NotNull), Val)
      cdnValues == Map(Filter(Map(cdn, ImagesLoadedOf), NotNull), Val)
      originAvgImg == Map(Filter(Map(origin, AvgImageOf), NotNull), Val)
      cdnAvgImg == Map(Filter(Map(cdn, AvgImageOf), NotNull), Val)
      originMedian == IF Len(originValues) > 0 THEN median(originValues) ELSE Null
      originP90 == IF Len(originValues) > 0 THEN percentile(originValues, 9, 10) ELSE Null
      originAvgImgMedian == IF Len(originAvgImg) > 0 THEN median(originAvgImg) ELSE Null
      originStddev == IF Len(originValues) > 1 THEN stdDev(originValues) ELSE Null
      cdnStddev == IF Len(cdnValues) > 1 THEN stdDev(cdnValues) ELSE Null
      cdnMedian == IF Len(cdnValues) > 0 THEN median(cdnValues) ELSE Null
      cdnP90 == IF Len(cdnValues) > 0 THEN percentile(cdnValues, 9, 10) ELSE Null
      cdnAvgImgMedian == IF Len(cdnAvgImg) > 0 THEN median(cdnAvgImg) ELSE Null
  IN [originMedian |-> RoundOpt(originMedian),
      originP90 |-> originP90,
      originStddev |-> IF originStddev # Null THEN Some(RoundStdDev(originStddev)) ELSE Null,
      originAvgImg |-> RoundOpt(originAvgImgMedian),
      cdnMedian |-> RoundOpt(cdnMedian),
      cdnP90 |-> cdnP90,
      cdnStddev |-> IF cdnStddev # Null THEN Some(RoundStdDev(cdnStddev)) ELSE Null,
      cdnAvgImg |-> RoundOpt(cdnAvgImgMedian),
      improvementMedian |-> improvement(originMedian, cdnMedian),
      improvementP90 |-> improvement(AsRat(originP90), AsRat(cdnP90)),
      originErrors |-> SeqSum(Map(origin, ErrorsOf)),
      cdnErrors |-> SeqSum(Map(cdn, ErrorsOf))]

TotalMsOf(r) == r.total_ms
TtfbMsOf(r) == r.ttfb_ms

\* Math.round(percentile(values, pn / pd)) of a list that is not empty
RoundPercentile(values, pn, pd) == Val(percentile(values, pn, pd))

\* computeImageStats(records), the statistics of the image command
computeImageStats(records) ==
  LET totalValues == Map(Filter(Map(records, TotalMsOf), NotNull), Val)
      ttfbValues == Map(Filter(Map(records, TtfbMsOf), NotNull), Val)
      some == Len(totalValues) > 0
      someTtfb == Len(ttfbValues) > 0
  IN [total_mean_ms |-> IF some THEN RoundOpt(mean(totalValues)) ELSE Null,
      total_p50_ms |-> IF some THEN Some(RoundPercentile(totalValues, 1, 2)) ELSE Null,
      total_p95_ms |-> IF some THEN Some(RoundPercentile(totalValues, 19, 20)) ELSE Null,
      total_p99_ms |-> IF some THEN Some(RoundPercentile(totalValues, 99, 100)) ELSE Null,
      total_stddev_ms |-> IF some THEN Some(RoundStdDev(stdDev(totalValues))) ELSE Null,
      ttfb_mean_ms |-> IF someTtfb THEN RoundOpt(mean(ttfbValues)) ELSE Null,
      ttfb_p50_ms |-> IF someTtfb THEN Some(RoundPercentile(ttfbValues, 1, 2)) ELSE Null,
      ttfb_p95_ms |-> IF someTtfb THEN Some(RoundPercentile(ttfbValues, 19, 20)) ELSE Null,
      ttfb_p99_ms |-> IF someTtfb THEN Some(RoundPercentile(ttfbValues, 99, 100)) ELSE Null,
      errors |-> SeqSum(Map(records, ErrorsOf))]

\* a summaryToCsvRow that leaves the timestamp column blank
summaryToCsvRowUntimed(summary, timestamp) ==
  <<"", "TOTAL", "-", "-",
    "", "", "", "", "", "", "",
    Cell(summary.originMedian), Cell(summary.originP90), Cell(summary.originAvgImg),
    Cell(summary.cdnMedian), Cell(summary.cdnP90), Cell(summary.cdnAvgImg),
    IF summary.improvementMedian # Null THEN toFixed1(Val(summary.improvementMedian)) ELSE "",
    IF summary.improvementP90 # Null THEN toFixed1(Val(summary.improvementP90)) ELSE "">>

summaryToCsvRow(summary, timestamp) ==
  <<timestamp, "TOTAL", "-", "-",
    "", "", "", "", "", "", "",
    Cell(summary.originMedian), Cell(summary.originP90), Cell(summary.originAvgImg),
    Cell(summary.cdnMedian), Cell(summary.cdnP90), Cell(summary.cdnAvgImg),
    IF summary.improvementMedian # Null THEN toFixed1(Val(summary.improvementMedian)) ELSE "",
    IF summary.improvementP90 # Null THEN toFixed1(Val(summary.improvementP90)) ELSE "">>

\* a saveReport that writes the summary row above the records
ReportLinesSummaryFirst(records, timestamp) ==
  <<CSV_HEADER>> \o <<summaryToCsvRow(computeSummary(records), timestamp)>>
    \o Map(records, recordToCsvRow)

\* the lines saveReport writes
ReportLines(records, timestamp) ==
  <<CSV_HEADER>> \o Map(records, recordToCsvRow)
    \o <<summaryToCsvRow(computeSummary(records), timestamp)>>

(***************************************************************************)
(* bin/bench.js: shuffle (Fisher-Yates). js[i] is the index drawn by       *)
(* Math.floor(Math.random() * (i + 1)) at loop index i (0-based).          *)
(***************************************************************************)
\* a swap that overwrites result[i] without keeping its old value
SwapLossy(a, i, j) == [a EXCEPT ![i + 1] = a[j + 1]]

Swap(a, i, j) == [a EXCEPT ![i + 1] = a[j + 1], ![j + 1] = a[i + 1]]

RECURSIVE FisherYates(_, _, _)
FisherYates(result, i, js) ==
  IF i > 0 THEN FisherYates(Swap(result, i, js[i]), i - 1, js) ELSE result

RandomDraws(n) == {js \in [1..(n - 1) -> 0..(n - 1)] : \A i \in 1..(n - 1) : js[i] <= i}

shuffle(array, js) == FisherYates(array, Len(array) - 1, js)

buildPath(variant, pageId) == <<"cdntest", pageId, variant, "index.html">>

\* allUrls of cmdRun: page-major, variant-minor
AllUrls ==
  [k \in 1..(Len(PAGES) * Len(VARIANTS)) |->
     buildPath(VARIANTS[((k - 1) % Len(VARIANTS)) + 1],
               PAGES[((k - 1) \div Len(VARIANTS)) + 1])]

(***************************************************************************)
(* lib/browser.js: runSingle, the values it computes.                      *)
(***************************************************************************)
\* imageStats assigned in the catch block
NavFailure(errorName) ==
  [timeout |-> TRUE,
   timeoutReason |-> IF errorName = "TimeoutError" THEN Some("navigation_timeout")
                     ELSE Some("navigation_error"),
   stats |-> [total |-> 0, loaded |-> 0, failed |-> 0, pending |-> 0,
              imagesOnlyMs |-> Null, avgImageMs |-> Null, sumImageMs |-> Null]]

\* a runSingle that reports no duration at all once the wait has timed out
ImagesLoadedMsUnlessTimeout(imageStats, elapsed) ==
  IF imageStats.timeout THEN Null
  ELSE IF imageStats.stats.imagesOnlyMs # Null
    THEN Some(<<Val(imageStats.stats.imagesOnlyMs), 2>>)
  ELSE IF imageStats.stats.pending = 0
    THEN Some(<<elapsed, 1>>)
  ELSE Null

\* imagesLoadedMs after waitForImages returned; elapsed is Date.now() - startMs
ImagesLoadedMs(imageStats, elapsed) ==
  IF imageStats.stats.imagesOnlyMs # Null
    THEN Some(<<Val(imageStats.stats.imagesOnlyMs), 2>>)
  ELSE IF ~imageStats.timeout /\ imageStats.stats.pending = 0
    THEN Some(<<elapsed, 1>>)
  ELSE Null

UsesWallClock(imageStats) ==
  imageStats.stats.imagesOnlyMs = Null /\ ~imageStats.timeout
    /\ imageStats.stats.pending = 0

\* a runSingle that counts the timeout itself as an error, as runImageSingle does
RunSingleReturnCountingTimeout(imageStats, imagesLoadedMs, ttfbMs, lcpMs, navError, userAgent, viewport) ==
  [imagesLoadedMs |-> RoundOpt(imagesLoadedMs),
   avgImageMs |-> IF imageStats.stats.avgImageMs # Null
                    THEN Some(MathRound(Val(imageStats.stats.avgImageMs)[1],
                                        2 * Val(imageStats.stats.avgImageMs)[2]))
                    ELSE Null,
   timeout |-> imageStats.timeout,
   timeoutReason |-> imageStats.timeoutReason,
   imagesTotal |-> imageStats.stats.total - imageStats.stats.failed,
   imagesLoaded |-> imageStats.stats.loaded,
   imagesFailed |-> imageStats.stats.failed,
   imagesPending |-> imageStats.stats.pending,
   navError |-> navError,
   errorsCount |-> imageStats.stats.failed + (IF imageStats.timeout THEN 1 ELSE 0),
   userAgent |-> userAgent,
   viewport |-> viewport,
   ttfbMs |-> ttfbMs,
   lcpMs |-> lcpMs]

\* a runSingle whose imagesTotal is the whole snapshot, failed images included
RunSingleReturnTotalOfSnapshot(imageStats, imagesLoadedMs, ttfbMs, lcpMs, navError, userAgent, viewport) ==
  [RunSingleReturnCountingTimeout(imageStats, imagesLoadedMs, ttfbMs, lcpMs, navError,
                                  userAgent, viewport)
     EXCEPT !.imagesTotal = imageStats.stats.total,
            !.errorsCount = imageStats.stats.failed]

\* the object runSingle returns
RunSingleReturn(imageStats, imagesLoadedMs, ttfbMs, lcpMs, navError, userAgent, viewport) ==
  [imagesLoadedMs |-> RoundOpt(imagesLoadedMs),
   avgImageMs |-> IF imageStats.stats.avgImageMs # Null
                    THEN Some(MathRound(Val(imageStats.stats.avgImageMs)[1],
                                        2 * Val(imageStats.stats.avgImageMs)[2]))
                    ELSE Null,
   timeout |-> imageStats.timeout,
   timeoutReason |-> imageStats.timeoutReason,
   imagesTotal |-> imageStats.stats.total - imageStats.stats.failed,
   imagesLoaded |-> imageStats.stats.loaded,
   imagesFailed |-> imageStats.stats.failed,
   imagesPending |-> imageStats.stats.pending,
   navError |-> navError,
   errorsCount |-> imageStats.stats.failed,
   userAgent |-> userAgent,
   viewport |-> viewport,
   ttfbMs |-> ttfbMs,
   lcpMs |-> lcpMs]

\* the record cmdRun builds from the result of one trial
MakeRecord(pageId, variant, i, runData, now) ==
  [timestamp_iso |-> ToString(now),
   page_id |-> pageId,
   variant |-> variant,
   run_index |-> i,
   images_loaded_ms |-> runData.imagesLoadedMs,
   avg_image_ms |-> runData.avgImageMs,
   images_total |-> runData.imagesTotal,
   images_failed |-> runData.imagesFailed,
   lcp_ms |-> runData.lcpMs,
   ttfb_ms |-> runData.ttfbMs,
   timeout |-> runData.timeout,
   errors_count |-> runData.errorsCount]

(***************************************************************************)
(* The pages and the errors the environment can produce.                   *)
(***************************************************************************)
Timed == [timing |-> Some([responseEnd |-> 9, duration |-> 5]), complete |-> TRUE, natW |-> 1]
Untimed == [timing |-> Null, complete |-> TRUE, natW |-> 1]
Broken == [timing |-> Null, complete |-> TRUE, natW |-> 0]
Loading == [timing |-> Null, complete |-> FALSE, natW |-> 0]

\* the page whose images have all loaded with timing data: the nominal trial
NominalPage == <<Timed>>
\* the snapshots of the document drawn in the model of a whole run
RunPages == {NominalPage, <<Loading>>}

\* the images and documents drawn in the model of a single trial
\* (an image that is not complete has no natural size yet)
Timings == {Null, Some([responseEnd |-> 9, duration |-> 5])}
ImageKinds ==
  {img \in [timing : Timings, complete : BOOLEAN, natW : {0, 1}] :
     img.complete \/ img.natW = 0}
  \cup {[timing |-> Some([responseEnd |-> 16, duration |-> 4]), complete |-> TRUE, natW |-> 1]}
TrialPages == UNION {[1..n -> ImageKinds] : n \in 0..MaxImages}

ErrorNames == {"TimeoutError", "Error"}
\* the time page.goto takes, and by how much a sleep(pollMs) overshoots, in ms
NavMs == 30
RunJitter == {0}
TrialJitter == {0, 150}
\* navigation TTFB and LCP as evaluated in the page, in half milliseconds
PageMetrics ==
  [ttfb |-> Some(<<25, 2>>), lcp |-> Some(<<81, 2>>), userAgent |-> "ua",
   viewport |-> [width |-> 1280, height |-> 720]]

\* --delay-ms and --browser as given on the command line
DelayArgs == {-1, 0}
BrowserNames == {"chromium", "firefox"}

(***************************************************************************)
(* The `run` command: cmdRun from the launch of the browser on, with       *)
(* runWarmup, runSingle and waitForImages inlined at their await points.   *)
(***************************************************************************)
VARIABLES
  cfg,           \* [repeats, browserName, delayMs, timeoutMs]: the parsed arguments
  lib,           \* the call of a library function in progress, NoCall when none
  pc,            \* the await point the control thread is at
  wRun, wIdx,    \* runWarmup: pass and index into urls
  pageIdx, rep,  \* cmdRun: index into PAGES and repeat index i
  order, vIdx,   \* cmdRun: variantsOrder and the position in it
  openContexts,  \* browsing contexts created and not closed
  browserOpen,   \* the browser process is running
  trial,         \* the local variables of the current runSingle call
  rawRecords,    \* cmdRun: rawRecords
  report,        \* the lines of the CSV file, Null until written
  console,       \* what cmdRun has printed after the loop: <<stream, message>>
  thrown,        \* an exception is propagating out of cmdRun's try block
  warm,          \* [visits, navigations, navErrors, closes] of runWarmup so far
  delays,        \* sleep(delayMs) calls between trials so far
  executed,      \* (page, variant, repeat) of every runSingle call, in call order
  clock,         \* the wall clock of cmdRun, in ticks
  budget         \* [left, used]: the deviations from the nominal path the environment
                 \* may still make, and whether it has made one

vars == <<cfg, lib, pc, wRun, wIdx, pageIdx, rep, order, vIdx, openContexts, browserOpen,
          trial, rawRecords, report, console, thrown, warm, delays, executed, clock,
          budget>>

loopVars == <<wRun, wIdx, pageIdx, rep, order, vIdx>>
outVars == <<rawRecords, report, console, delays, executed, clock>>

NoCall == [fn |-> "none"]

\* now and waitStart are Date.now() - startMs, in ms
NoTrial ==
  [ctx |-> FALSE, closeCalled |-> FALSE, now |-> 0, waitStart |-> 0, doc |-> Null,
   caughtAt |-> Null, polls |-> 0, minPending |-> Null,
   imageStats |-> Null, imagesLoadedMs |-> Null,
   ttfbMs |-> Null, lcpMs |-> Null, userAgent |-> Null, viewport |-> Null,
   metricsThrew |-> FALSE, navError |-> Null, result |-> Null]

\* const delayMs = Number(args["delay-ms"]) || 1000
ParseDelayMs(arg) == IF arg = 0 THEN DefaultDelayMs ELSE arg

\* s3Bucket, s3AccessKeyId, s3SecretAccessKey: whether toNonEmptyString gave a string
S3Args == [bucket : BOOLEAN, accessKeyId : BOOLEAN, secretAccessKey : BOOLEAN]

NoS3 == [bucket |-> FALSE, accessKeyId |-> FALSE, secretAccessKey |-> FALSE]
AllS3 == [bucket |-> TRUE, accessKeyId |-> TRUE, secretAccessKey |-> TRUE]

\* the arguments of a run: S3 is configured in the runs of the default browser
\* with the default delay
RunArgs ==
  {a \in [repeats : 0..MaxRepeats, browserName : BrowserNames,
          delayMs : {ParseDelayMs(d) : d \in DelayArgs}, timeoutMs : {MaxWaitMs},
          s3 : {NoS3, AllS3}] :
     a.s3 = AllS3 => a.browserName = "chromium" /\ a.delayMs = DefaultDelayMs}

Init ==
  /\ cfg \in RunArgs
  /\ lib = NoCall
  /\ pc = "w_newContext"
  /\ wRun = 0 /\ wIdx = 1
  /\ pageIdx = 1 /\ rep = 0
  /\ order = <<>> /\ vIdx = 1
  /\ openContexts = 0
  /\ browserOpen = TRUE
  /\ trial = NoTrial
  /\ rawRecords = <<>>
  /\ report = Null
  /\ console = <<>>
  /\ thrown = FALSE
  /\ warm = [visits |-> 0, navigations |-> 0, navErrors |-> 0, closes |-> 0]
  /\ delays = 0
  /\ executed = <<>>
  /\ clock = 0
  /\ budget = [left |-> MaxDeviations, used |-> FALSE]

\* the environment stays on the nominal path / leaves it at this step
Nominal == budget' = budget
Deviate == budget.left > 0 /\ budget' = [left |-> budget.left - 1, used |-> TRUE]
\* the same at the start of a warmup visit or trial
NominalStart == budget' = IF budget.used THEN [budget EXCEPT !.left = 0] ELSE budget
DeviateStart == ~budget.used /\ Deviate

\* an exception leaves the try block of cmdRun
Throw == pc' = "finally" /\ thrown' = TRUE

(* ------------------------------ runWarmup ------------------------------ *)
Warmup_NewContext ==
  /\ pc = "w_newContext"
  /\ \/ /\ NominalStart
        /\ openContexts' = openContexts + 1
        /\ warm' = [warm EXCEPT !.visits = @ + 1]
        /\ pc' = "w_newPage"
        /\ UNCHANGED thrown
     \/ /\ DeviateStart /\ Throw
        /\ UNCHANGED <<openContexts, warm>>
  /\ UNCHANGED <<cfg, lib, loopVars, browserOpen, trial, outVars>>

Warmup_NewPage ==
  /\ pc = "w_newPage"
  /\ \/ Nominal /\ pc' = "w_disableCache" /\ UNCHANGED thrown
     \/ Deviate /\ Throw
  /\ UNCHANGED <<cfg, lib, loopVars, openContexts, browserOpen, trial, outVars, warm>>

\* try { await disableCacheIfPossible(...)
Warmup_DisableCache ==
  /\ pc = "w_disableCache"
  /\ \/ Nominal /\ pc' = "w_goto"
     \/ cfg.browserName = "chromium" /\ Deviate /\ pc' = "w_close"
  /\ UNCHANGED <<cfg, lib, loopVars, openContexts, browserOpen, trial, outVars, warm, thrown>>

\* await page.goto(...) } catch { }
Warmup_Goto ==
  /\ pc = "w_goto"
  /\ \/ Nominal /\ warm' = [warm EXCEPT !.navigations = @ + 1]
     \/ Deviate /\ warm' = [warm EXCEPT !.navigations = @ + 1, !.navErrors = @ + 1]
  /\ pc' = "w_close"
  /\ UNCHANGED <<cfg, lib, loopVars, openContexts, browserOpen, trial, outVars, thrown>>

\* finally { await context.close() }, then the next url, pass, or return
Warmup_Close ==
  /\ pc = "w_close"
  /\ warm' = [warm EXCEPT !.closes = @ + 1]
  /\ \/ /\ Nominal
        /\ openContexts' = openContexts - 1
        /\ IF wIdx < Len(AllUrls)
             THEN wIdx' = wIdx + 1 /\ pc' = "w_newContext" /\ UNCHANGED wRun
           ELSE IF wRun + 1 < WarmupRuns
             THEN wIdx' = 1 /\ wRun' = wRun + 1 /\ pc' = "w_newContext"
           ELSE wIdx' = 1 /\ wRun' = wRun + 1 /\ pc' = "loop"
        /\ UNCHANGED thrown
     \/ /\ Deviate /\ Throw
        /\ openContexts' \in {openContexts, openContexts - 1}
        /\ UNCHANGED <<wRun, wIdx>>
  /\ UNCHANGED <<cfg, lib, pageIdx, rep, order, vIdx, browserOpen, trial, outVars>>

(* ------------------------- cmdRun: the main loop ----------------------- *)
\* the heads of `for (const pageId of PAGES)` and `for (let i = 0; i < repeats; i++)`,
\* and const variantsOrder = shuffle(VARIANTS)
LoopHead ==
  /\ pc = "loop"
  /\ \/ /\ pageIdx > Len(PAGES)
        /\ pc' = "finally"
        /\ UNCHANGED <<pageIdx, rep, order, vIdx>>
     \/ /\ pageIdx <= Len(PAGES) /\ rep >= cfg.repeats
        /\ pageIdx' = pageIdx + 1 /\ rep' = 0
        /\ pc' = "loop"
        /\ UNCHANGED <<order, vIdx>>
     \/ /\ pageIdx <= Len(PAGES) /\ rep < cfg.repeats
        /\ \E js \in RandomDraws(Len(VARIANTS)) : order' = shuffle(VARIANTS, js)
        /\ vIdx' = 1
        /\ pc' = "newContext"
        /\ UNCHANGED <<pageIdx, rep>>
  /\ UNCHANGED <<cfg, lib, wRun, wIdx, openContexts, browserOpen, trial, outVars, thrown,
                 warm, budget>>

(* ------------------------------ runSingle ------------------------------ *)
runVars ==
  <<cfg, lib, loopVars, browserOpen, rawRecords, report, console, delays, clock, warm>>

\* const context = await browser.newContext()
Single_NewContext ==
  /\ pc = "newContext"
  /\ executed' = Append(executed, <<PAGES[pageIdx], order[vIdx], rep>>)
  /\ \/ /\ NominalStart
        /\ openContexts' = openContexts + 1
        /\ trial' = [NoTrial EXCEPT !.ctx = TRUE]
        /\ pc' = "newPage"
        /\ UNCHANGED thrown
     \/ /\ DeviateStart /\ Throw
        /\ trial' = NoTrial
        /\ UNCHANGED openContexts
  /\ UNCHANGED runVars

\* const page = await context.newPage()
Single_NewPage ==
  /\ pc = "newPage"
  /\ \/ Nominal /\ pc' = "addInitScript" /\ UNCHANGED thrown
     \/ Deviate /\ Throw
  /\ UNCHANGED <<runVars, executed, openContexts, trial>>

\* await page.addInitScript(...)
Single_AddInitScript ==
  /\ pc = "addInitScript"
  /\ \/ Nominal /\ pc' = "disableCache" /\ UNCHANGED thrown
     \/ Deviate /\ Throw
  /\ UNCHANGED <<runVars, executed, openContexts, trial>>

\* await disableCacheIfPossible(context, page, browserName)
Single_DisableCache ==
  /\ pc = "disableCache"
  /\ \/ Nominal /\ pc' = "goto" /\ UNCHANGED thrown
     \/ cfg.browserName = "chromium" /\ Deviate /\ Throw
  /\ UNCHANGED <<runVars, executed, openContexts, trial>>

\* a catch block that returns from runSingle without the page metrics
CaughtSkippingMetrics(errorName) ==
  /\ trial' = [trial EXCEPT !.imageStats = Some(NavFailure(errorName)),
                            !.navError = Some(errorName),
                            !.caughtAt = Some(pc),
                            !.doc = Null]
  /\ pc' = "contextClose"

\* the catch block around goto, autoScroll and waitForImages
Caught(errorName) ==
  /\ trial' = [trial EXCEPT !.imageStats = Some(NavFailure(errorName)),
                            !.navError = Some(errorName),
                            !.caughtAt = Some(pc),
                            !.doc = Null]
  /\ pc' = "metrics"

\* await page.goto(url, ...)
Single_Goto ==
  /\ pc = "goto"
  /\ \/ Nominal /\ pc' = "autoScroll" /\ trial' = [trial EXCEPT !.now = @ + NavMs]
     \/ Deviate /\ \E e \in ErrorNames : Caught(e)
  /\ UNCHANGED <<runVars, executed, openContexts, thrown>>

\* await autoScroll(page, scrollDelayMs); then const startTime = Date.now()
Single_AutoScroll ==
  /\ pc = "autoScroll"
  /\ \/ Nominal /\ pc' = "waitForImages" /\ trial' = [trial EXCEPT !.waitStart = trial.now]
     \/ Deviate /\ \E e \in ErrorNames : Caught(e)
  /\ UNCHANGED <<runVars, executed, openContexts, thrown>>

\* waitForImages returned imageStats, computed on the snapshot imgData after
\* newPolls passes of its loop: the choice of imagesLoadedMs
Returned(imageStats, imgData, newPolls) ==
  /\ trial' = [trial EXCEPT !.imageStats = Some(imageStats),
                            !.imagesLoadedMs = ImagesLoadedMs(imageStats, trial.now),
                            !.polls = newPolls,
                            !.doc = Some(imgData)]
  /\ pc' = "metrics"

\* while (Date.now() - startTime < maxWaitMs)
WithinWaitInclusive == trial.now - trial.waitStart <= cfg.timeoutMs

WithinWait == trial.now - trial.waitStart < cfg.timeoutMs

\* the fewest pending images seen by the passes of the loop so far
MinPending(stats) ==
  IF trial.minPending = Null THEN Some(stats.pending)
  ELSE Some(Min2(Val(trial.minPending), stats.pending))

\* what the document can show to collectImageTimings at this poll: any of pages,
\* or, when the document is steady, what it showed at the previous poll
Shown(pages, steady) == IF steady /\ trial.doc # Null THEN {Val(trial.doc)} ELSE pages

\* one pass of the while loop of waitForImages up to its return or its sleep
PollStep(pages, steady) ==
  /\ pc = "waitForImages"
  /\ WithinWait
  /\ \/ \E imgData \in Shown(pages, steady) :
          LET stats == CollectImageTimings(imgData)
          IN /\ IF trial.now = trial.waitStart /\ imgData # NominalPage
                  THEN Deviate ELSE Nominal
             /\ IF EarlyExit(stats)
                  THEN Returned(EarlyReturn(stats), imgData, trial.polls + 1)
                  ELSE /\ pc' = "pollSleep"
                       /\ trial' = [trial EXCEPT
                                      !.doc = IF steady THEN Some(imgData) ELSE Null,
                                      !.polls = @ + 1,
                                      !.minPending = MinPending(stats)]
     \/ Deviate /\ \E e \in ErrorNames : Caught(e)
  /\ UNCHANGED <<runVars, executed, openContexts, thrown>>

\* await sleep(pollMs)
PollSleepStep(jitters) ==
  /\ pc = "pollSleep"
  /\ \E j \in jitters : trial' = [trial EXCEPT !.now = @ + PollMs + j]
  /\ pc' = "waitForImages"
  /\ UNCHANGED <<runVars, executed, openContexts, thrown, budget>>

\* the loop condition failed: the final collectImageTimings and the timeout return
WaitTimeoutStep(pages, steady) ==
  /\ pc = "waitForImages"
  /\ ~WithinWait
  /\ \/ /\ Nominal
        /\ \E imgData \in Shown(pages, steady) :
             Returned(TimeoutReturn(CollectImageTimings(imgData)), imgData, trial.polls)
     \/ Deviate /\ \E e \in ErrorNames : Caught(e)
  /\ UNCHANGED <<runVars, executed, openContexts, thrown>>

\* in a whole run the document is steady while waitForImages polls it
Single_Poll == PollStep(RunPages, TRUE)
Single_PollSleep == PollSleepStep(RunJitter)
Single_WaitTimeout == WaitTimeoutStep(RunPages, TRUE)

\* a runSingle whose page.evaluate is inside the try block of the navigation
Single_CollectMetricsCaught ==
  /\ pc = "metrics"
  /\ \/ /\ Nominal
        /\ trial' = [trial EXCEPT !.ttfbMs = RoundOpt(PageMetrics.ttfb),
                                  !.lcpMs = RoundOpt(PageMetrics.lcp),
                                  !.userAgent = Some(PageMetrics.userAgent),
                                  !.viewport = Some(PageMetrics.viewport)]
     \/ /\ Deviate
        /\ \E e \in ErrorNames :
             trial' = [trial EXCEPT !.metricsThrew = TRUE,
                                    !.imageStats = Some(NavFailure(e)),
                                    !.imagesLoadedMs = Null,
                                    !.navError = Some(e)]
  /\ pc' = "contextClose"
  /\ UNCHANGED <<runVars, executed, openContexts, thrown>>

\* try { const metrics = await page.evaluate(...) ... } catch { }
Single_CollectMetrics ==
  /\ pc = "metrics"
  /\ \/ /\ Nominal
        /\ trial' = [trial EXCEPT !.ttfbMs = RoundOpt(PageMetrics.ttfb),
                                  !.lcpMs = RoundOpt(PageMetrics.lcp),
                                  !.userAgent = Some(PageMetrics.userAgent),
                                  !.viewport = Some(PageMetrics.viewport)]
     \/ Deviate /\ trial' = [trial EXCEPT !.metricsThrew = TRUE]
  /\ pc' = "contextClose"
  /\ UNCHANGED <<runVars, executed, openContexts, thrown>>

\* a runSingle that returns without waiting for context.close() to take effect
Single_ContextCloseDetached ==
  /\ pc = "contextClose"
  /\ Nominal
  /\ trial' = [trial EXCEPT
                 !.closeCalled = TRUE,
                 !.result = Some(RunSingleReturn(Val(trial.imageStats),
                                   trial.imagesLoadedMs, trial.ttfbMs,
                                   trial.lcpMs, trial.navError, trial.userAgent,
                                   trial.viewport))]
  /\ pc' = "record"
  /\ UNCHANGED <<runVars, executed, openContexts, thrown>>

\* await context.close(); return {...}
Single_ContextClose ==
  /\ pc = "contextClose"
  /\ \/ /\ Nominal
        /\ openContexts' = openContexts - 1
        /\ trial' = [trial EXCEPT
                       !.closeCalled = TRUE,
                       !.result = Some(RunSingleReturn(Val(trial.imageStats),
                                         trial.imagesLoadedMs, trial.ttfbMs,
                                         trial.lcpMs, trial.navError, trial.userAgent,
                                   trial.viewport))]
        /\ pc' = "record"
        /\ UNCHANGED thrown
     \/ /\ Deviate /\ Throw
        /\ openContexts' \in {openContexts, openContexts - 1}
        /\ trial' = [trial EXCEPT !.closeCalled = TRUE]
  /\ UNCHANGED <<runVars, executed>>

(* -------------------- cmdRun: after runSingle returned ----------------- *)
\* the next variant of variantsOrder, or the next repeat
NextTrial ==
  IF vIdx < Len(order)
    THEN vIdx' = vIdx + 1 /\ UNCHANGED rep
    ELSE vIdx' = 1 /\ rep' = rep + 1

\* an isLast that does not look at the variant
isLastOfRepeat ==
  /\ PAGES[pageIdx] = PAGES[Len(PAGES)]
  /\ rep = cfg.repeats - 1

isLast ==
  /\ PAGES[pageIdx] = PAGES[Len(PAGES)]
  /\ rep = cfg.repeats - 1
  /\ order[vIdx] = order[Len(order)]

\* rawRecords.push(record), and the choice whether to sleep
PushRecord ==
  /\ pc = "record"
  /\ rawRecords' = Append(rawRecords,
                     MakeRecord(PAGES[pageIdx], order[vIdx], rep, Val(trial.result), clock))
  /\ clock' = clock + 1
  /\ IF ~isLast /\ cfg.delayMs > 0
       THEN pc' = "sleep" /\ UNCHANGED <<vIdx, rep>>
       ELSE pc' = (IF vIdx < Len(order) THEN "newContext" ELSE "loop") /\ NextTrial
  /\ UNCHANGED <<cfg, lib, wRun, wIdx, pageIdx, order, openContexts, browserOpen, trial,
                 report, console, thrown, warm, delays, executed, budget>>

\* await sleep(delayMs)
Sleep ==
  /\ pc = "sleep"
  /\ delays' = delays + 1
  /\ clock' = clock + 1
  /\ pc' = (IF vIdx < Len(order) THEN "newContext" ELSE "loop") /\ NextTrial
  /\ UNCHANGED <<cfg, lib, wRun, wIdx, pageIdx, order, openContexts, browserOpen, trial,
                 rawRecords, report, console, thrown, warm, executed, budget>>

\* finally { await browser.close() }
BrowserClose ==
  /\ pc = "finally"
  /\ browserOpen' = FALSE
  /\ openContexts' = 0
  /\ \/ Nominal /\ pc' = (IF thrown THEN "failed" ELSE "saveReport") /\ UNCHANGED thrown
     \/ Deviate /\ pc' = "failed" /\ thrown' = TRUE
  /\ UNCHANGED <<cfg, lib, loopVars, trial, outVars, warm>>

(* ------------------------------ withRetries ---------------------------- *)
\* every variable but lib
libFrame == <<cfg, pc, wRun, wIdx, pageIdx, rep, order, vIdx, openContexts, browserOpen,
              trial, rawRecords, report, console, thrown, warm, delays, executed, clock,
              budget>>

\* a call of withRetries(fn, attempts, backoffMs, onRetry) about to enter its loop;
\* trace lists what it has done: <<"fn", attempt>>, <<"onRetry", attempt, delay>>,
\* <<"sleep", delay>>; the error thrown by the k-th invocation of fn is k
WithRetriesCall(attempts, backoffMs, hasOnRetry) ==
  [fn |-> "withRetries", attempts |-> attempts, backoffMs |-> backoffMs,
   hasOnRetry |-> hasOnRetry, total |-> Max2(1, attempts), attempt |-> 1,
   at |-> "fn", lastError |-> Null, trace |-> <<>>, ret |-> Null, threw |-> Null]

RECURSIVE Pow2(_)
Pow2(n) == IF n <= 0 THEN 1 ELSE 2 * Pow2(n - 1)

\* const delay = backoffMs * Math.pow(2, attempt - 1)
RetryDelay == lib.backoffMs * Pow2(lib.attempt - 1)

\* a withRetries that gives up one attempt early
Retries_FnShort ==
  /\ lib.fn = "withRetries" /\ lib.at = "fn"
  /\ lib.attempt <= lib.total
  /\ LET called == [lib EXCEPT !.trace = Append(@, <<"fn", lib.attempt>>)]
     IN \/ lib' = [called EXCEPT !.ret = Some(lib.attempt), !.at = "returned"]
        \/ lib' = [called EXCEPT
                     !.lastError = Some(lib.attempt),
                     !.at = IF lib.attempt + 1 >= lib.total THEN "threw" ELSE "onRetry",
                     !.threw = IF lib.attempt + 1 >= lib.total THEN Some(lib.attempt) ELSE Null]
  /\ UNCHANGED libFrame

\* a withRetries that remembers the result of a successful invocation but goes on
\* to the next attempt
Retries_FnKeepsGoing ==
  /\ lib.fn = "withRetries" /\ lib.at = "fn"
  /\ lib.attempt <= lib.total
  /\ LET called == [lib EXCEPT !.trace = Append(@, <<"fn", lib.attempt>>)]
         last == lib.attempt >= lib.total
     IN \/ lib' = [called EXCEPT !.ret = Some(lib.attempt),
                                 !.at = IF last THEN "returned" ELSE "onRetry"]
        \/ lib' = [called EXCEPT
                     !.lastError = Some(lib.attempt),
                     !.at = IF last THEN "threw" ELSE "onRetry",
                     !.threw = IF last THEN Some(lib.attempt) ELSE Null]
  /\ UNCHANGED libFrame

\* try { return await fn(attempt, total) } catch (error) { lastError = error;
\* if (attempt >= total) break; ... } and, after the loop, throw lastError
Retries_Fn ==
  /\ lib.fn = "withRetries" /\ lib.at = "fn"
  /\ lib.attempt <= lib.total
  /\ LET called == [lib EXCEPT !.trace = Append(@, <<"fn", lib.attempt>>)]
     IN \/ lib' = [called EXCEPT !.ret = Some(lib.attempt), !.at = "returned"]
        \/ lib' = [called EXCEPT
                     !.lastError = Some(lib.attempt),
                     !.at = IF lib.attempt >= lib.total THEN "threw" ELSE "onRetry",
                     !.threw = IF lib.attempt >= lib.total THEN Some(lib.attempt) ELSE Null]
  /\ UNCHANGED libFrame

\* if (onRetry) onRetry(attempt, total, error, delay)
Retries_OnRetry ==
  /\ lib.fn = "withRetries" /\ lib.at = "onRetry"
  /\ lib' = [lib EXCEPT
               !.trace = IF lib.hasOnRetry
                           THEN Append(@, <<"onRetry", lib.attempt, RetryDelay>>) ELSE @,
               !.at = IF RetryDelay > 0 THEN "sleep" ELSE "fn",
               !.attempt = IF RetryDelay > 0 THEN @ ELSE @ + 1]
  /\ UNCHANGED libFrame

\* if (delay > 0) await sleep(delay); then attempt++
Retries_Sleep ==
  /\ lib.fn = "withRetries" /\ lib.at = "sleep"
  /\ lib' = [lib EXCEPT !.trace = Append(@, <<"sleep", RetryDelay>>),
                        !.at = "fn",
                        !.attempt = @ + 1]
  /\ UNCHANGED libFrame

(* --------------------------- cmdRun: the report ------------------------ *)
\* withRetries(() => uploadFileS3({...}), 3, 2000, (attempt, total, err) => ...)
UploadAttempts == 3
UploadBackoffMs == 2000

\* a cmdRun that uploads whenever a bucket is configured
S3ConfiguredBucketOnly == cfg.s3.bucket

\* if (s3Bucket && s3AccessKeyId && s3SecretAccessKey)
S3Configured == cfg.s3.bucket /\ cfg.s3.accessKeyId /\ cfg.s3.secretAccessKey

\* await saveReport({ outputPath: csvPath, records: rawRecords, meta }), console.log
\* (`Saved: ...`) and, with S3 configured, the call of withRetries
SaveReport ==
  /\ pc = "saveReport"
  /\ \/ /\ Nominal
        /\ report' = Some(ReportLines(rawRecords, ToString(clock)))
        /\ console' = Append(console, <<"log", "Saved">>)
        /\ IF S3Configured
             THEN /\ lib' = WithRetriesCall(UploadAttempts, UploadBackoffMs, TRUE)
                  /\ pc' = "upload"
             ELSE /\ pc' = "done"
                  /\ UNCHANGED lib
        /\ UNCHANGED thrown
     \/ /\ Deviate
        /\ pc' = "failed" /\ thrown' = TRUE
        /\ UNCHANGED <<lib, report, console>>
  /\ UNCHANGED <<cfg, loopVars, openContexts, browserOpen, trial, rawRecords, delays,
                 executed, clock, warm>>

\* withRetries has returned: console.log(`Uploaded: ...`); it has thrown:
\* catch (err) { console.error(`S3 upload failed: ...`) }; cmdRun returns
Upload_Settled ==
  /\ pc = "upload"
  /\ lib.at \in {"returned", "threw"}
  /\ console' = Append(console, IF lib.at = "returned" THEN <<"log", "Uploaded">>
                                                      ELSE <<"error", "S3 upload failed">>)
  /\ pc' = "done"
  /\ UNCHANGED <<cfg, lib, loopVars, openContexts, browserOpen, trial, rawRecords, report,
                 thrown, delays, executed, clock, warm, budget>>

Next ==
  \/ Warmup_NewContext \/ Warmup_NewPage \/ Warmup_DisableCache \/ Warmup_Goto
  \/ Warmup_Close
  \/ LoopHead
  \/ Single_NewContext \/ Single_NewPage \/ Single_AddInitScript
  \/ Single_DisableCache \/ Single_Goto \/ Single_AutoScroll
  \/ Single_Poll \/ Single_PollSleep \/ Single_WaitTimeout
  \/ Single_CollectMetrics \/ Single_ContextClose
  \/ PushRecord \/ Sleep \/ BrowserClose \/ SaveReport
  \/ Retries_Fn \/ Retries_OnRetry \/ Retries_Sleep \/ Upload_Settled

Spec == Init /\ [][Next]_vars

(***************************************************************************)
(* The end of cmdRun in detail: after a run of no trials (--repeats 0) has *)
(* left the loop and closed the browser, with every combination of the     *)
(* three S3 settings.                                                      *)
(***************************************************************************)
InitReport ==
  /\ cfg \in {[repeats |-> 0, browserName |-> b, delayMs |-> ParseDelayMs(d),
               timeoutMs |-> MaxWaitMs, s3 |-> s] :
                b \in BrowserNames, d \in DelayArgs, s \in S3Args}
  /\ lib = NoCall
  /\ pc = "saveReport"
  /\ wRun = WarmupRuns /\ wIdx = 1
  /\ pageIdx = Len(PAGES) + 1 /\ rep = 0
  /\ order = <<>> /\ vIdx = 1
  /\ openContexts = 0
  /\ browserOpen = FALSE
  /\ trial = NoTrial
  /\ rawRecords = <<>>
  /\ report = Null
  /\ console = <<>>
  /\ thrown = FALSE
  /\ warm = [visits |-> WarmupRuns * Len(AllUrls),
             navigations |-> WarmupRuns * Len(AllUrls),
             navErrors |-> 0,
             closes |-> WarmupRuns * Len(AllUrls)]
  /\ delays = 0
  /\ executed = <<>>
  /\ clock = 0
  /\ budget = [left |-> MaxDeviations, used |-> FALSE]

NextOfReport ==
  \/ SaveReport
  \/ Retries_Fn \/ Retries_OnRetry \/ Retries_Sleep
  \/ Upload_Settled

SpecReport == InitReport /\ [][NextOfReport]_vars

(***************************************************************************)
(* One trial in detail: runSingle called from any position of the main     *)
(* loop, on any document of up to MaxImages images, every await point free *)
(* to fail, followed by the record cmdRun appends.                         *)
(***************************************************************************)
InitTrial ==
  /\ cfg \in {a \in RunArgs : /\ a.repeats = MaxRepeats /\ a.browserName = "chromium"
                              /\ a.delayMs = DefaultDelayMs /\ a.s3 = NoS3}
  /\ lib = NoCall
  /\ pc = "newContext"
  /\ wRun = WarmupRuns /\ wIdx = 1
  /\ pageIdx \in 1..Len(PAGES) /\ rep = MaxRepeats - 1
  /\ \E js \in RandomDraws(Len(VARIANTS)) : order = shuffle(VARIANTS, js)
  /\ vIdx \in 1..Len(VARIANTS)
  /\ openContexts = 0
  /\ browserOpen = TRUE
  /\ trial = NoTrial
  /\ rawRecords = <<>>
  /\ report = Null
  /\ console = <<>>
  /\ thrown = FALSE
  /\ warm = [visits |-> WarmupRuns * Len(AllUrls),
             navigations |-> WarmupRuns * Len(AllUrls),
             navErrors |-> 0,
             closes |-> WarmupRuns * Len(AllUrls)]
  /\ delays = 0
  /\ executed = <<>>
  /\ clock = 0
  /\ budget = [left |-> TrialDeviations, used |-> FALSE]

Trial_Poll == PollStep(TrialPages, FALSE)
Trial_PollSleep == PollSleepStep(TrialJitter)
Trial_WaitTimeout == WaitTimeoutStep(TrialPages, FALSE)

NextOfTrial ==
  \/ Single_NewContext \/ Single_NewPage \/ Single_AddInitScript
  \/ Single_DisableCache \/ Single_Goto \/ Single_AutoScroll
  \/ Trial_Poll \/ Trial_PollSleep \/ Trial_WaitTimeout
  \/ Single_CollectMetrics \/ Single_ContextClose
  \/ PushRecord

SpecTrial == InitTrial /\ [][NextOfTrial]_vars

\* the first trial of the last repeat of the first page
InitWait == InitTrial /\ pageIdx = 1 /\ vIdx = 1

\* that trial with the control thread of the trial always scheduled
SpecWait == InitWait /\ [][NextOfTrial]_vars /\ WF_vars(NextOfTrial)


(***************************************************************************)
(* The functions of lib/browser.js, lib/report.js and lib/utils.js called  *)
(* on their own: lib holds the arguments of one call and, once it has      *)
(* returned, its result.                                                   *)
(***************************************************************************)
SeqsUpTo(S, n) == UNION {[1..k -> S] : k \in 0..n}

PageElements == {[hostname |-> h] : h \in {Null} \cup {Some(x) : x \in Hostnames}}

FilterImgDataCalls ==
  {[fn |-> "filterImgData", elements |-> e, ignoreHosts |-> i, allowHosts |-> a,
    ret |-> Null] :
     e \in SeqsUpTo(PageElements, MaxImages), i \in {<<>>, IGNORED_IMAGE_HOSTS},
     a \in SeqsUpTo(HostPatterns, MaxPatterns)}

BackoffArgs == {0, 100}

WithRetriesCalls ==
  {WithRetriesCall(n, b, o) : n \in 0..MaxAttempts, b \in BackoffArgs, o \in BOOLEAN}

\* a record as cmdRun builds it, of the given variant, images_loaded_ms,
\* avg_image_ms and errors_count
SampleRecord(variant, imagesLoadedMs, avgImageMs, errorsCount) ==
  [timestamp_iso |-> "t", page_id |-> PAGES[1], variant |-> variant, run_index |-> 0,
   images_loaded_ms |-> imagesLoadedMs, avg_image_ms |-> avgImageMs,
   images_total |-> 2, images_failed |-> errorsCount,
   lcp_ms |-> Null, ttfb_ms |-> Some(13),
   timeout |-> imagesLoadedMs = Null, errors_count |-> errorsCount]

SampleTimes == {Null, Some(0), Some(85), Some(110)}

\* a trial whose images gave no timing data is one whose images failed
SampleRecords ==
  {SampleRecord(v, t, a, IF a = Null THEN 2 ELSE 0) :
     v \in {"origin", "cdn"}, t \in SampleTimes, a \in {Null, Some(7)}}

\* Scenario A: origin times [100, 120, 110], cdn times [80, 85, 90]
ScenarioA ==
  <<SampleRecord("origin", Some(100), Some(7), 0), SampleRecord("cdn", Some(80), Some(7), 0),
    SampleRecord("origin", Some(120), Some(7), 0), SampleRecord("cdn", Some(85), Some(7), 0),
    SampleRecord("origin", Some(110), Some(7), 0), SampleRecord("cdn", Some(90), Some(7), 0)>>

RecordLists == SeqsUpTo(SampleRecords, MaxRecords) \cup {ScenarioA}

ComputeSummaryCalls ==
  {[fn |-> "computeSummary", records |-> r, ret |-> Null] : r \in RecordLists}

\* now is new Date().toISOString() at the time of the call
SaveReportCalls ==
  {[fn |-> "saveReport", records |-> r, now |-> "now", ret |-> Null] : r \in RecordLists}

\* values is the array passed, given what it held when it was passed
MedianValues == {-3, 0, 4, 9}

MedianCalls ==
  {[fn |-> "median", values |-> v, given |-> v, ret |-> Null] :
     v \in SeqsUpTo(MedianValues, MaxLen)}

\* the p of percentile(values, p), as rationals <<pn, pd>>
PercentileArgs == {<<-1, 2>>, <<0, 1>>, <<1, 2>>, <<9, 10>>, <<1, 1>>, <<3, 2>>}

PercentileCalls ==
  {[fn |-> "percentile", values |-> v, p |-> p, ret |-> Null] :
     v \in SeqsUpTo(MedianValues, MaxLen), p \in PercentileArgs}

\* the times improvement is called with: null or a rational number of ms
ImprovementArgs == {Null, Some(<<0, 1>>), Some(<<50, 1>>), Some(<<100, 1>>), Some(<<175, 2>>)}

ImprovementCalls ==
  {[fn |-> "improvement", originMs |-> o, cdnMs |-> c, ret |-> Null] :
     o \in ImprovementArgs, c \in ImprovementArgs}

\* hosts and patterns over a small alphabet; a host is not empty and has no *
HostChars == {"a", "b"}

MatchHostCalls ==
  {[fn |-> "matchHost", host |-> h, pattern |-> p, ret |-> Null] :
     h \in SeqsUpTo(HostChars, MaxHostLen) \ {<<>>},
     p \in SeqsUpTo(HostChars \cup {"*"}, MaxPatternLen)}

\* the images left by the host filters, as collectImageTimings goes through them
CollectImageTimingsCalls ==
  {[fn |-> "collectImageTimings", imgData |-> d, ret |-> Null] : d \in TrialPages}

StdDevCalls ==
  {[fn |-> "stdDev", values |-> v, ret |-> Null] : v \in SeqsUpTo(MedianValues, MaxLen)}

\* the records of the image command: total_ms, ttfb_ms and errors_count of a run
ImageRecords ==
  [total_ms : {Null, Some(40), Some(100)}, ttfb_ms : {Null, Some(13)}, errors_count : {0, 1}]

ComputeImageStatsCalls ==
  {[fn |-> "computeImageStats", records |-> r, ret |-> Null] :
     r \in SeqsUpTo(ImageRecords, MaxRecords)}

(* ---------------------------- fetchUrlMetrics -------------------------- *)
\* the longest a request is followed, in ms after startMs, and the most chunks of a
\* response body
MaxFetchMs == 3
MaxChunks == 2

\* const startMs = Date.now(), a time since the epoch
FetchStartMs == 1000

\* err.message of an error of the response stream and of the request that the
\* timeout did not raise
ResErrorMessages == {"aborted"}
ReqErrorMessages == {"ECONNRESET"}

\* a call of fetchUrlMetrics(url, timeoutMs) after req.end(): the variables of the
\* promise executor, the time now, the last activity on the socket, whether the
\* response callback has run (hasRes) and req.destroy was called (destroyed), the
\* callbacks delivered so far in their order (calls), the number of chunks read and
\* the payloads handed to resolve (resolved)
FetchUrlMetricsCall(timeoutMs) ==
  [fn |-> "fetchUrlMetrics", timeoutMs |-> timeoutMs, startMs |-> FetchStartMs,
   now |-> FetchStartMs, lastActivity |-> FetchStartMs,
   done |-> FALSE, statusCode |-> Null, remoteIp |-> Null, httpVersion |-> Null,
   responseAt |-> Null, firstByteAt |-> Null, sizeBytes |-> 0, timeout |-> FALSE,
   error |-> Null, hasRes |-> FALSE, destroyed |-> FALSE, calls |-> <<>>, chunks |-> 0,
   resolved |-> <<>>]

FetchUrlMetricsCalls == {FetchUrlMetricsCall(t) : t \in 1..2}

\* { statusCode, remoteIp, httpVersion, sizeBytes, ttfbMs, totalMs, timeout, error }
FetchPayload(l, ttfbMs, totalMs) ==
  [statusCode |-> l.statusCode, remoteIp |-> l.remoteIp, httpVersion |-> l.httpVersion,
   sizeBytes |-> l.sizeBytes, ttfbMs |-> ttfbMs, totalMs |-> totalMs,
   timeout |-> l.timeout, error |-> l.error]

\* const finish = (payload) => { if (done) return; done = true; resolve(payload); }
finish(l, payload) ==
  IF l.done THEN l
  ELSE [l EXCEPT !.done = TRUE, !.resolved = Append(@, payload)]

Fetching == pc = "lib" /\ lib.fn = "fetchUrlMetrics"

\* the callback has not been delivered yet
NotYet(callback) == \A i \in 1..Len(lib.calls) : lib.calls[i] # callback

\* time passes
Fetch_Tick ==
  /\ Fetching
  /\ lib.now < lib.startMs + MaxFetchMs
  /\ lib' = [lib EXCEPT !.now = @ + 1]
  /\ UNCHANGED libFrame

\* (res) => { statusCode = res.statusCode || null; ...; responseAt = Date.now(); ... }
Fetch_Response ==
  /\ Fetching
  /\ ~lib.hasRes /\ ~lib.destroyed /\ NotYet("reqError")
  /\ \E status \in {0, 200} :
       lib' = [lib EXCEPT !.hasRes = TRUE,
                          !.statusCode = IF status = 0 THEN Null ELSE Some(status),
                          !.httpVersion = Some("1.1"),
                          !.remoteIp = Some("ip"),
                          !.responseAt = Some(lib.now),
                          !.lastActivity = lib.now]
  /\ UNCHANGED libFrame

\* res.on("data", (chunk) => { if (firstByteAt == null) firstByteAt = Date.now();
\* sizeBytes += chunk.length; })
Fetch_Data ==
  /\ Fetching
  /\ lib.hasRes /\ ~lib.destroyed /\ NotYet("end") /\ NotYet("resError")
  /\ lib.chunks < MaxChunks
  /\ lib' = [lib EXCEPT !.firstByteAt = IF @ = Null THEN Some(lib.now) ELSE @,
                        !.sizeBytes = @ + 1,
                        !.chunks = @ + 1,
                        !.lastActivity = lib.now]
  /\ UNCHANGED libFrame

\* res.on("end", () => { const endMs = Date.now(); const ttfbMs = ...; finish({...}) })
Fetch_End ==
  /\ Fetching
  /\ lib.hasRes /\ NotYet("end")
  /\ LET ttfbMs == IF lib.firstByteAt # Null THEN Some(Val(lib.firstByteAt) - lib.startMs)
                   ELSE IF lib.responseAt # Null
                     THEN Some(Val(lib.responseAt) - lib.startMs)
                   ELSE Null
         l == [lib EXCEPT !.calls = Append(@, "end")]
     IN lib' = finish(l, FetchPayload(l, ttfbMs, Some(lib.now - lib.startMs)))
  /\ UNCHANGED libFrame

\* res.on("error", (err) => { error = err.message; finish({..., ttfbMs: responseAt ?
\* responseAt - startMs : null, totalMs: null, ...}) })
Fetch_ResError ==
  /\ Fetching
  /\ lib.hasRes /\ NotYet("resError")
  /\ \E message \in ResErrorMessages :
       LET l == [lib EXCEPT !.error = Some(message), !.calls = Append(@, "resError")]
           ttfbMs == IF lib.responseAt # Null /\ Val(lib.responseAt) # 0
                       THEN Some(Val(lib.responseAt) - lib.startMs) ELSE Null
       IN lib' = finish(l, FetchPayload(l, ttfbMs, Null))
  /\ UNCHANGED libFrame

\* req.on("error", (err) => { error = err.message; finish({..., ttfbMs: null,
\* totalMs: null, ...}) }); the error of a destroyed request is the one given to
\* req.destroy
Fetch_ReqError ==
  /\ Fetching
  /\ NotYet("reqError")
  /\ \E message \in IF lib.destroyed THEN {"timeout"} ELSE ReqErrorMessages :
       LET l == [lib EXCEPT !.error = Some(message), !.calls = Append(@, "reqError")]
       IN lib' = finish(l, FetchPayload(l, Null, Null))
  /\ UNCHANGED libFrame

\* req.setTimeout(timeoutMs, () => { timeout = true; error = "timeout";
\* req.destroy(new Error("timeout")); }): the socket has been idle for timeoutMs
Fetch_Timeout ==
  /\ Fetching
  /\ NotYet("timeout") /\ NotYet("reqError")
  /\ lib.now - lib.lastActivity >= lib.timeoutMs
  /\ lib' = [lib EXCEPT !.timeout = TRUE, !.error = Some("timeout"),
                        !.destroyed = TRUE, !.calls = Append(@, "timeout")]
  /\ UNCHANGED libFrame

InitLib ==
  /\ \/ lib \in FilterImgDataCalls
     \/ lib \in WithRetriesCalls
     \/ lib \in ComputeSummaryCalls
     \/ lib \in SaveReportCalls
     \/ lib \in MedianCalls
     \/ lib \in PercentileCalls
     \/ lib \in ImprovementCalls
     \/ lib \in MatchHostCalls
     \/ lib \in CollectImageTimingsCalls
     \/ lib \in StdDevCalls
     \/ lib \in ComputeImageStatsCalls
     \/ lib \in FetchUrlMetricsCalls
  /\ pc = "lib"
  /\ cfg = [repeats |-> 0, browserName |-> "chromium", delayMs |-> DefaultDelayMs,
            timeoutMs |-> MaxWaitMs, s3 |-> NoS3]
  /\ wRun = 0 /\ wIdx = 1
  /\ pageIdx = 1 /\ rep = 0
  /\ order = <<>> /\ vIdx = 1
  /\ openContexts = 0
  /\ browserOpen = FALSE
  /\ trial = NoTrial
  /\ rawRecords = <<>>
  /\ report = Null
  /\ console = <<>>
  /\ thrown = FALSE
  /\ warm = [visits |-> 0, navigations |-> 0, navErrors |-> 0, closes |-> 0]
  /\ delays = 0
  /\ executed = <<>>
  /\ clock = 0
  /\ budget = [left |-> 0, used |-> FALSE]

\* the call returns value
LibReturn(value) ==
  /\ lib' = [lib EXCEPT !.ret = Some(value)]
  /\ UNCHANGED libFrame

Lib_FilterImgData ==
  /\ pc = "lib" /\ lib.fn = "filterImgData" /\ lib.ret = Null
  /\ LibReturn(FilterImgData(lib.elements, lib.ignoreHosts, lib.allowHosts))

Lib_ComputeSummary ==
  /\ pc = "lib" /\ lib.fn = "computeSummary" /\ lib.ret = Null
  /\ LibReturn(computeSummary(lib.records))

Lib_Median ==
  /\ pc = "lib" /\ lib.fn = "median" /\ lib.ret = Null
  /\ lib' = [lib EXCEPT !.ret = Some(median(lib.values)),
                        !.values = ValuesAfterMedian(lib.values)]
  /\ UNCHANGED libFrame

Lib_Percentile ==
  /\ pc = "lib" /\ lib.fn = "percentile" /\ lib.ret = Null
  /\ LibReturn(percentile(lib.values, lib.p[1], lib.p[2]))

Lib_Improvement ==
  /\ pc = "lib" /\ lib.fn = "improvement" /\ lib.ret = Null
  /\ LibReturn(improvement(lib.originMs, lib.cdnMs))

Lib_MatchHost ==
  /\ pc = "lib" /\ lib.fn = "matchHost" /\ lib.ret = Null
  /\ LibReturn(matchHost(lib.host, lib.pattern))

Lib_CollectImageTimings ==
  /\ pc = "lib" /\ lib.fn = "collectImageTimings" /\ lib.ret = Null
  /\ LibReturn(CollectImageTimings(lib.imgData))

Lib_StdDev ==
  /\ pc = "lib" /\ lib.fn = "stdDev" /\ lib.ret = Null
  /\ LibReturn(stdDev(lib.values))

Lib_ComputeImageStats ==
  /\ pc = "lib" /\ lib.fn = "computeImageStats" /\ lib.ret = Null
  /\ LibReturn(computeImageStats(lib.records))

\* the lines written to outputPath
Lib_SaveReport ==
  /\ pc = "lib" /\ lib.fn = "saveReport" /\ lib.ret = Null
  /\ LibReturn(ReportLines(lib.records, lib.now))

NextOfLib ==
  \/ Lib_FilterImgData
  \/ Lib_ComputeSummary
  \/ Lib_SaveReport
  \/ Lib_Median
  \/ Lib_Percentile
  \/ Lib_Improvement
  \/ Lib_MatchHost
  \/ Lib_CollectImageTimings
  \/ Lib_StdDev
  \/ Lib_ComputeImageStats
  \/ Retries_Fn \/ Retries_OnRetry \/ Retries_Sleep
  \/ Fetch_Tick \/ Fetch_Response \/ Fetch_Data \/ Fetch_End
  \/ Fetch_ResError \/ Fetch_ReqError \/ Fetch_Timeout

SpecLib == InitLib /\ [][NextOfLib]_vars

(***************************************************************************)
(* Properties.                                                             *)
(***************************************************************************)
TripleOf(r) == <<r.page_id, r.variant, r.run_index>>

Triples ==
  {<<PAGES[p], VARIANTS[v], i>> :
     p \in 1..Len(PAGES), v \in 1..Len(VARIANTS), i \in 0..(cfg.repeats - 1)}

RecordedTriples == {TripleOf(rawRecords[k]) : k \in 1..Len(rawRecords)}

TotalTrials == Len(PAGES) * cfg.repeats * Len(VARIANTS)

WarmupVisits == WarmupRuns * Len(AllUrls)

\* the main loop ran to its end
LoopCompleted == pc \in {"saveReport", "done"} \/ (pc = "finally" /\ ~thrown)

InWarmup == pc \in {"w_newContext", "w_newPage", "w_disableCache", "w_goto", "w_close"}

InRunSingle ==
  pc \in {"newPage", "addInitScript", "disableCache", "goto", "autoScroll",
          "waitForImages", "pollSleep", "metrics", "contextClose"}

\* an exception left runSingle and with it the try block of cmdRun
TrialAborted == thrown /\ Len(executed) > Len(rawRecords)

LastRecord == rawRecords[Len(rawRecords)]

PageIndex(pageId) == CHOOSE i \in 1..Len(PAGES) : PAGES[i] = pageId

C2_TrialFailureNeverAborts == ~TrialAborted

\* C3: whenever runSingle has returned or thrown after browser.newContext()
\* succeeded, context.close() has been called
C3_ContextClosedOnEveryExit ==
  (trial.ctx /\ (pc = "record" \/ TrialAborted)) => trial.closeCalled

TrialRecorded == Len(rawRecords) >= 1 /\ Len(rawRecords) = Len(executed)

C5_GotoFailureRecorded ==
  (trial.caughtAt = Some("goto") /\ ~InRunSingle /\ pc # "record") =>
    /\ TrialRecorded
    /\ LastRecord.timeout
    /\ LastRecord.images_loaded_ms = Null
    /\ LastRecord.images_total = 0
    /\ LastRecord.images_failed = 0
    /\ LastRecord.errors_count = 0
    /\ Val(trial.result).imagesLoaded = 0
    /\ Val(trial.result).imagesPending = 0
    /\ Val(trial.result).timeoutReason =
         (IF trial.navError = Some("TimeoutError") THEN Some("navigation_timeout")
          ELSE Some("navigation_error"))

\* C6: at most one browsing context is open; a warmup visit or a trial
\* creates its context only when none is open, and a trial only when every
\* earlier trial has its record
C6_OneContextAtATime ==
  /\ openContexts \in {0, 1}
  /\ pc \in {"w_newContext", "newContext"} => openContexts = 0
  /\ pc = "newContext" => Len(rawRecords) = Len(executed)
  /\ InRunSingle => Len(rawRecords) = Len(executed) - 1

C6_Witness ==
  /\ pc = "goto" /\ openContexts = 1
  /\ Len(rawRecords) >= 1
  /\ warm.closes = WarmupVisits

C9_WarmupCompletes ==
  /\ Len(executed) >= 1 =>
       /\ warm.visits = WarmupVisits
       /\ warm.navigations = WarmupVisits
       /\ warm.closes = WarmupVisits
  /\ (warm.navErrors > 0 /\ ~InWarmup) =>
       /\ warm.visits = WarmupVisits
       /\ warm.closes = WarmupVisits

\* waitForImages returned (it did not throw) and runSingle holds its result
WaitReturned == trial.imageStats # Null /\ trial.navError = Null

\* C10 as stated: an early exit on an empty snapshot gives no_images; on any
\* other snapshot nothing is pending and the reason is images_failed when
\* some image failed and null otherwise
C10_Original ==
  (WaitReturned /\ ~Val(trial.imageStats).timeout) =>
    LET st == Val(trial.imageStats).stats
        reason == Val(trial.imageStats).timeoutReason
    IN /\ st.total = 0 => reason = Some("no_images")
       /\ st.total > 0 =>
            /\ st.pending = 0
            /\ reason = (IF st.failed > 0 THEN Some("images_failed") ELSE Null)

\* C10 amended: an early exit gives no_images on an empty snapshot and on one
\* whose images have all failed; on any other snapshot nothing is pending
\* and the reason is images_failed when some (not all) images failed and null
\* when none failed; a return before the deadline is never a timeout
C10_EarlyExitReason ==
  WaitReturned =>
    LET st == Val(trial.imageStats).stats
        reason == Val(trial.imageStats).timeoutReason
    IN /\ trial.now - trial.waitStart < cfg.timeoutMs => ~Val(trial.imageStats).timeout
       /\ ~Val(trial.imageStats).timeout =>
            /\ (st.total = 0 \/ st.total = st.failed) => reason = Some("no_images")
            /\ ~(st.total = 0 \/ st.total = st.failed) =>
                 /\ st.pending = 0
                 /\ reason = (IF st.failed > 0 THEN Some("images_failed") ELSE Null)

\* every image of the page failed
C10_Witness ==
  /\ WaitReturned /\ ~Val(trial.imageStats).timeout
  /\ Val(trial.imageStats).stats.total >= 1
  /\ Val(trial.imageStats).stats.failed = Val(trial.imageStats).stats.total
  /\ Val(trial.imageStats).timeoutReason = Some("no_images")

\* the most passes of the loop a clock advancing by pollMs per pass allows
PollBound == (cfg.timeoutMs + PollMs - 1) \div PollMs

InWaitForImages == pc \in {"waitForImages", "pollSleep"}

C11_ReturnOfWait ==
  /\ trial.polls <= PollBound
  /\ WaitReturned =>
       LET ret == Val(trial.imageStats)
       IN /\ ret.stats = CollectImageTimings(Val(trial.doc))
          /\ ret.timeout =>
               /\ ret.timeoutReason = Some("timeout")
               /\ trial.now - trial.waitStart >= cfg.timeoutMs
               /\ trial.polls >= 1 => Val(trial.minPending) >= 1

\* C11: waitForImages makes at most ceil(maxWaitMs / pollMs) passes and then
\* returns; it returns timeout = true, reason timeout, only once maxWaitMs has
\* elapsed and every earlier pass saw a pending image; the counts returned are
\* those of the snapshot collected last, complete or not
C11_WaitTerminates ==
  /\ []C11_ReturnOfWait
  /\ InWaitForImages ~> ~InWaitForImages

\* a timeout return after the most passes, on a last snapshot that is complete
C11_Witness ==
  /\ WaitReturned
  /\ Val(trial.imageStats).timeout
  /\ trial.polls = PollBound
  /\ Val(trial.imageStats).stats.pending = 0
  /\ Val(trial.imageStats).stats.total >= 1

\* C12: after waitForImages returned, the duration of the trial is the
\* snapshot's imagesOnlyMs whenever that is not null, timed out or not;
\* else the wall-clock time since startMs if the wait did not time out and no
\* image is pending; else null. runSingle returns it rounded
C12_ImagesLoadedChoice ==
  WaitReturned =>
    LET ret == Val(trial.imageStats)
        only == ret.stats.imagesOnlyMs
    IN /\ only # Null => trial.imagesLoadedMs = Some(<<Val(only), 2>>)
       /\ (only = Null /\ ~ret.timeout /\ ret.stats.pending = 0) =>
            trial.imagesLoadedMs = Some(<<trial.now, 1>>)
       /\ (only = Null /\ (ret.timeout \/ ret.stats.pending > 0)) =>
            trial.imagesLoadedMs = Null
       /\ trial.result # Null =>
            Val(trial.result).imagesLoadedMs =
              (IF trial.imagesLoadedMs = Null THEN Null
               ELSE Some(MathRound(Val(trial.imagesLoadedMs)[1], Val(trial.imagesLoadedMs)[2])))

\* a timed-out wait whose last snapshot has timing data, returned by runSingle
C12_Witness ==
  /\ WaitReturned /\ trial.result # Null
  /\ Val(trial.imageStats).timeout
  /\ Val(trial.imageStats).stats.pending >= 1
  /\ Val(trial.imageStats).stats.imagesOnlyMs # Null
  /\ Val(trial.result).imagesLoadedMs = Some(MathRound(Val(Val(trial.imageStats).stats.imagesOnlyMs), 2))

CompletedEmpty(img) == img.complete /\ img.natW = 0

\* C13: in the snapshot waitForImages returned, every image that completed
\* with naturalWidth = 0 is counted as failed and none of them as loaded,
\* with or without a resource-timing entry for its URL
C13_ZeroWidthIsFailed ==
  WaitReturned =>
    LET imgData == Val(trial.doc)
        stats == Val(trial.imageStats).stats
    IN /\ stats.failed = Len(SelectSeq(imgData, CompletedEmpty))
       /\ stats.loaded <= Len(imgData) - Len(SelectSeq(imgData, CompletedEmpty))

\* the call of fn in lib has returned
LibReturned(fn) == lib.fn = fn /\ lib.ret # Null

\* host is pattern with every * replaced by some string, possibly empty
RECURSIVE GlobMatch(_, _)
GlobMatch(host, pattern) ==
  IF pattern = <<>> THEN host = <<>>
  ELSE IF Head(pattern) = "*"
    THEN GlobMatch(host, Tail(pattern)) \/ (host # <<>> /\ GlobMatch(Tail(host), pattern))
  ELSE host # <<>> /\ Head(host) = Head(pattern) /\ GlobMatch(Tail(host), Tail(pattern))

\* the element is counted: it has a hostname that is not on the ignore-list
\* and, with a non-empty allow-list, is not empty and matches one of its patterns
Qualifies(e, ignoreHosts, allowHosts) ==
  /\ e.hostname # Null
  /\ \A k \in 1..Len(ignoreHosts) : ignoreHosts[k] # Val(e.hostname)
  /\ \/ allowHosts = <<>>
     \/ /\ Val(e.hostname) # <<>>
        /\ \E k \in 1..Len(allowHosts) : GlobMatch(Val(e.hostname), allowHosts[k])

\* C14: the images counted are, in document order, exactly those whose
\* hostname is not ignored and, unless the allow-list is empty, matches one of
\* its patterns; *.cdn.example.com admits a.cdn.example.com and not
\* cdn.example.com
C14_QualifyingImages ==
  /\ LibReturned("filterImgData") =>
       LET Keep(e) == Qualifies(e, lib.ignoreHosts, lib.allowHosts)
       IN Val(lib.ret) = SelectSeq(lib.elements, Keep)
  /\ matchHost(SubCdnHost, SubCdnPattern)
  /\ ~matchHost(CdnHost, SubCdnPattern)

\* an ignored host that a pattern of the allow-list matches, next to an
\* admitted one
C14_Witness ==
  /\ LibReturned("filterImgData")
  /\ lib.elements = <<[hostname |-> Some(AdHost)], [hostname |-> Some(SubCdnHost)]>>
  /\ lib.ignoreHosts = IGNORED_IMAGE_HOSTS
  /\ lib.allowHosts = <<<<"a", "*">>>>
  /\ Val(lib.ret) = <<[hostname |-> Some(SubCdnHost)]>>

\* what a withRetries whose fn always fails does from attempt k on
RECURSIVE FailingTrace(_, _, _, _)
FailingTrace(k, n, backoffMs, hasOnRetry) ==
  IF k > n THEN <<>>
  ELSE IF k = n THEN <<<<"fn", k>>>>
  ELSE <<<<"fn", k>>>>
         \o (IF hasOnRetry THEN <<<<"onRetry", k, backoffMs * (2 ^ (k - 1))>>>> ELSE <<>>)
         \o (IF backoffMs > 0 THEN <<<<"sleep", backoffMs * (2 ^ (k - 1))>>>> ELSE <<>>)
         \o FailingTrace(k + 1, n, backoffMs, hasOnRetry)

WithRetriesThrew == lib.fn = "withRetries" /\ lib.at = "threw"

\* C15: a withRetries with attempts = n >= 1 that has thrown has invoked fn
\* exactly n times and thrown the error of the n-th invocation; after each
\* failed attempt k < n, and never after the n-th, it called the observer once,
\* with delay backoffMs x 2^(k-1), before sleeping that long
C15_AlwaysFailing ==
  (WithRetriesThrew /\ lib.attempts >= 1) =>
    /\ lib.trace = FailingTrace(1, lib.attempts, lib.backoffMs, lib.hasOnRetry)
    /\ Len(SelectSeq(lib.trace, LAMBDA ev : ev[1] = "fn")) = lib.attempts
    /\ lib.hasOnRetry =>
         Len(SelectSeq(lib.trace, LAMBDA ev : ev[1] = "onRetry")) = lib.attempts - 1
    /\ lib.threw = Some(lib.attempts)
    /\ lib.ret = Null

\* attempts = 3, backoff = 100: three invocations, observer calls with delays
\* 100 and 200
C15_Witness ==
  /\ WithRetriesThrew
  /\ lib.attempts = 3 /\ lib.backoffMs = 100 /\ lib.hasOnRetry
  /\ lib.trace = <<<<"fn", 1>>, <<"onRetry", 1, 100>>, <<"sleep", 100>>,
                   <<"fn", 2>>, <<"onRetry", 2, 200>>, <<"sleep", 200>>, <<"fn", 3>>>>

\* some record of the variant has a value of the field
HasSample(records, variant, Field(_)) ==
  \E k \in 1..Len(records) : records[k].variant = variant /\ Field(records[k]) # Null

\* C16: computeSummary gives a variant's median, p90 and average-image
\* fields exactly when the variant has a record with a value of the
\* underlying field, and an improvement exactly when both variants have an
\* images_loaded_ms and the origin statistic is not 0; else the field is null
C16_SummaryNeedsSamples ==
  LibReturned("computeSummary") =>
    LET summary == Val(lib.ret)
        originMs == HasSample(lib.records, "origin", ImagesLoadedOf)
        cdnMs == HasSample(lib.records, "cdn", ImagesLoadedOf)
    IN /\ (summary.originMedian # Null) <=> originMs
       /\ (summary.originP90 # Null) <=> originMs
       /\ (summary.originAvgImg # Null) <=> HasSample(lib.records, "origin", AvgImageOf)
       /\ (summary.cdnMedian # Null) <=> cdnMs
       /\ (summary.cdnP90 # Null) <=> cdnMs
       /\ (summary.cdnAvgImg # Null) <=> HasSample(lib.records, "cdn", AvgImageOf)
       /\ (summary.improvementMedian # Null) <=>
            (originMs /\ cdnMs /\ summary.originMedian # Some(0))
       /\ (summary.improvementP90 # Null) <=>
            (originMs /\ cdnMs /\ summary.originP90 # Some(0))

\* only cdn has a sample: no origin fields and no improvement
C16_Witness ==
  /\ LibReturned("computeSummary")
  /\ Len(lib.records) = 2
  /\ lib.records[1].variant = "origin" /\ lib.records[1].images_loaded_ms = Null
  /\ lib.records[2].variant = "cdn" /\ lib.records[2].images_loaded_ms = Some(85)
  /\ Val(lib.ret).cdnMedian = Some(85)
  /\ Val(lib.ret).originMedian = Null
  /\ Val(lib.ret).improvementMedian = Null

HeaderColumns ==
  <<"timestamp", "page_id", "variant", "run", "images_ms", "avg_img_ms", "ttfb_ms",
    "lcp_ms", "images_total", "images_failed", "errors", "origin_median", "origin_p90",
    "origin_avg_img", "cdn_median", "cdn_p90", "cdn_avg_img", "improvement_%",
    "improvement_p90_%">>

\* the header, N rows in record order with blank summary columns, and a last
\* row labeled TOTAL, -, - with columns 5 to 11 blank
ReportShape(lines, records) ==
  /\ Len(lines) = Len(records) + 2
  /\ lines[1] = HeaderColumns
  /\ \A k \in 1..Len(lines) : Len(lines[k]) = 19
  /\ \A k \in 1..Len(records) :
       /\ lines[k + 1][1] = records[k].timestamp_iso
       /\ lines[k + 1][2] = records[k].page_id
       /\ lines[k + 1][3] = records[k].variant
       /\ lines[k + 1][4] = ToString(records[k].run_index + 1)
       /\ lines[k + 1][5] = Cell(records[k].images_loaded_ms)
       /\ lines[k + 1][11] = ToString(records[k].errors_count)
       /\ \A c \in 12..19 : lines[k + 1][c] = ""
  /\ LET total == lines[Len(lines)]
         summary == computeSummary(records)
     IN /\ total[2] = "TOTAL" /\ total[3] = "-" /\ total[4] = "-"
        /\ \A c \in 5..11 : total[c] = ""
        /\ total[12] = Cell(summary.originMedian)
        /\ total[13] = Cell(summary.originP90)
        /\ total[14] = Cell(summary.originAvgImg)
        /\ total[15] = Cell(summary.cdnMedian)
        /\ total[16] = Cell(summary.cdnP90)
        /\ total[17] = Cell(summary.cdnAvgImg)
        /\ (total[18] = "") <=> (summary.improvementMedian = Null)
        /\ (total[19] = "") <=> (summary.improvementP90 = Null)

Uploading == lib.fn = "withRetries"

\* the number of events of the kind in the trace of the call of withRetries
Events(kind) == Len(SelectSeq(lib.trace, LAMBDA e : e[1] = kind))

UploadGivenUp == Uploading /\ lib.at = "threw"

\* C18: in cmdRun the report is written before any upload attempt and an upload is
\* attempted only if bucket, access key id and secret key are all configured; an
\* upload that fails at every attempt is tried exactly 3 times, the observer being
\* called twice (after the first and the second failure); the failure is printed and
\* swallowed, so that cmdRun completes normally, and the report written stays as it
\* was written.
C18_UploadAfterReport ==
  /\ Uploading =>
       /\ report # Null
       /\ cfg.s3.bucket /\ cfg.s3.accessKeyId /\ cfg.s3.secretAccessKey
       /\ ~thrown /\ pc \in {"upload", "done"}
       /\ Events("fn") <= 3
  /\ UploadGivenUp =>
       lib.trace = <<
         <<"fn", 1>>, <<"onRetry", 1, 2000>>, <<"sleep", 2000>>,
         <<"fn", 2>>, <<"onRetry", 2, 4000>>, <<"sleep", 4000>>,
         <<"fn", 3>> >>
  /\ UploadGivenUp /\ pc = "done" =>
       console = << <<"log", "Saved">>, <<"error", "S3 upload failed">> >>
  /\ report # Null => report = Some(ReportLines(rawRecords, ToString(clock)))
  /\ pc = "done" => report # Null /\ ~thrown

\* cmdRun has completed after an upload that failed three times
C18_Witness ==
  /\ pc = "done" /\ UploadGivenUp
  /\ Events("fn") = 3 /\ Events("onRetry") = 2
  /\ ~thrown /\ report # Null

(* ------------------------------- C19 ----------------------------------- *)
\* the images_loaded_ms that are not null of the records of the variant, in order
RECURSIVE GroupTimes(_, _)
GroupTimes(records, variant) ==
  IF records = <<>> THEN <<>>
  ELSE LET r == Head(records)
       IN (IF r.variant = variant /\ r.images_loaded_ms # Null
             THEN <<r.images_loaded_ms[1]>> ELSE <<>>)
          \o GroupTimes(Tail(records), variant)

\* the sum of the errors_count of the records of the variant
RECURSIVE GroupErrors(_, _)
GroupErrors(records, variant) ==
  IF records = <<>> THEN 0
  ELSE (IF Head(records).variant = variant THEN Head(records).errors_count ELSE 0)
       + GroupErrors(Tail(records), variant)

\* C19: computeSummary takes the median and the 90th percentile of each variant from
\* the images_loaded_ms of the records of that variant that are not null, and sums
\* errors_count per variant; for origin times [100, 120, 110] and cdn times
\* [80, 85, 90] the origin median is 110, the cdn median 85 and the improvement of
\* the median (110 - 85) / 110 * 100, formatted as 22.7.
C19_SummaryByVariant ==
  LibReturned("computeSummary") =>
    LET s == Val(lib.ret)
        originTimes == GroupTimes(lib.records, "origin")
        cdnTimes == GroupTimes(lib.records, "cdn")
    IN /\ s.originMedian = IF originTimes = <<>> THEN Null ELSE RoundOpt(median(originTimes))
       /\ s.originP90 = IF originTimes = <<>> THEN Null ELSE percentile(originTimes, 9, 10)
       /\ s.cdnMedian = IF cdnTimes = <<>> THEN Null ELSE RoundOpt(median(cdnTimes))
       /\ s.cdnP90 = IF cdnTimes = <<>> THEN Null ELSE percentile(cdnTimes, 9, 10)
       /\ s.originErrors = GroupErrors(lib.records, "origin")
       /\ s.cdnErrors = GroupErrors(lib.records, "cdn")
       /\ lib.records = ScenarioA =>
            /\ originTimes = <<100, 120, 110>> /\ cdnTimes = <<80, 85, 90>>
            /\ s.originMedian = Some(110) /\ s.cdnMedian = Some(85)
            /\ s.improvementMedian # Null
            /\ Val(s.improvementMedian)[1] * 110 = (110 - 85) * 100 * Val(s.improvementMedian)[2]
            /\ Val(s.improvementMedian)[2] > 0
            /\ summaryToCsvRow(s, "now")[18] = "22.7"

\* computeSummary has returned the summary of Scenario A
C19_Witness ==
  /\ LibReturned("computeSummary") /\ lib.records = ScenarioA
  /\ Val(lib.ret).originMedian = Some(110) /\ Val(lib.ret).cdnMedian = Some(85)
  /\ toFixed1(Val(Val(lib.ret).improvementMedian)) = "22.7"

(* ------------------------------- C20 ----------------------------------- *)
\* the k-th smallest element of the list v, 1 <= k <= Len(v)
Ranked(v, k) ==
  CHOOSE x \in {v[i] : i \in DOMAIN v} :
    /\ Cardinality({i \in DOMAIN v : v[i] < x}) < k
    /\ Cardinality({i \in DOMAIN v : v[i] <= x}) >= k

\* C20: the median of a list that is not empty lies between its least and its
\* greatest element; for a list of odd length it is the middle element of the list
\* in ascending order, for one of even length the average of the two middle
\* elements; the median of the empty list is null, not 0; the list passed is left
\* as it was.
C20_Median ==
  LibReturned("median") =>
    LET v == lib.given
        n == Len(v)
        m == Val(lib.ret)
    IN /\ lib.values = v
       /\ n = 0 => m = Null /\ m # Some(<<0, 1>>)
       /\ n > 0 =>
            /\ m # Null /\ Val(m)[2] > 0
            /\ Ranked(v, 1) * Val(m)[2] <= Val(m)[1]
            /\ Val(m)[1] <= Ranked(v, n) * Val(m)[2]
            /\ n % 2 = 1 => Val(m)[1] = Ranked(v, (n + 1) \div 2) * Val(m)[2]
            /\ n % 2 = 0 =>
                 2 * Val(m)[1] = (Ranked(v, n \div 2) + Ranked(v, n \div 2 + 1)) * Val(m)[2]

\* median has returned the average of the two middle elements of an unsorted list of
\* even length, which is not an element of the list
C20_Witness ==
  /\ LibReturned("median")
  /\ lib.given = <<9, -3, 4, 0>>
  /\ Val(lib.ret) = Some(<<4, 2>>)
  /\ lib.values = <<9, -3, 4, 0>>

(* ------------------------------- C21 ----------------------------------- *)
\* the least integer that is not less than n / d, for d > 0 and |n / d| <= bound
CeilOf(n, d, bound) == CHOOSE k \in (0 - bound)..bound : (k - 1) * d < n /\ n <= k * d

\* C21: for a list of n > 0 values percentile(values, p) is the element of the list in
\* ascending order at index ceil(p * n) - 1, clamped to [0, n - 1]: for p = 1 the
\* greatest and for p = 0 the least element, and always an element of the list.
C21_NearestRank ==
  LibReturned("percentile") /\ Len(lib.values) > 0 =>
    LET v == lib.values
        n == Len(v)
        idx == CeilOf(lib.p[1] * n, lib.p[2], 2 * n) - 1
        clamped == IF idx < 0 THEN 0 ELSE IF idx > n - 1 THEN n - 1 ELSE idx
        r == Val(lib.ret)
    IN /\ r # Null
       /\ Val(r) = Ranked(v, clamped + 1)
       /\ \E i \in DOMAIN v : v[i] = Val(r)
       /\ lib.p = <<1, 1>> => \A i \in DOMAIN v : v[i] <= Val(r)
       /\ lib.p = <<0, 1>> => \A i \in DOMAIN v : Val(r) <= v[i]

\* percentile has returned the second smallest of four unsorted values for p = 1/2
C21_Witness ==
  /\ LibReturned("percentile")
  /\ lib.values = <<9, -3, 4, 0>> /\ lib.p = <<1, 2>>
  /\ Val(lib.ret) = Some(0)

(* ------------------------------- C22 ----------------------------------- *)
\* the rationals a and b, of positive denominators, are equal / a is less than b
RatEq(a, b) == a[1] * b[2] = b[1] * a[2]
RatLess(a, b) == a[1] * b[2] < b[1] * a[2]

\* C22: improvement(origin, cdn) is null when an input is absent or origin is 0, and
\* (origin - cdn) / origin * 100 otherwise, which is positive exactly when cdn is less
\* than origin (origin > 0); improvement(100, 50) = 50, improvement(50, 100) = -100
\* and improvement(0, 50) is null.
C22_Improvement ==
  LibReturned("improvement") =>
    LET o == lib.originMs
        c == lib.cdnMs
        r == Val(lib.ret)
    IN /\ (r = Null) <=> (o = Null \/ c = Null \/ (o # Null /\ Val(o)[1] = 0))
       /\ r # Null =>
            /\ Val(r)[2] > 0
            \* r * origin = (origin - cdn) * 100
            /\ Val(r)[1] * Val(o)[1] * Val(c)[2]
                 = (Val(o)[1] * Val(c)[2] - Val(c)[1] * Val(o)[2]) * 100 * Val(r)[2]
            /\ Val(o)[1] > 0 => (Val(r)[1] > 0 <=> RatLess(Val(c), Val(o)))
       /\ (o = Some(<<100, 1>>) /\ c = Some(<<50, 1>>)) => r # Null /\ RatEq(Val(r), <<50, 1>>)
       /\ (o = Some(<<50, 1>>) /\ c = Some(<<100, 1>>)) => r # Null /\ RatEq(Val(r), <<-100, 1>>)
       /\ (o = Some(<<0, 1>>) /\ c = Some(<<50, 1>>)) => r = Null

\* improvement(50, 100) has returned -100
C22_Witness ==
  /\ LibReturned("improvement")
  /\ lib.originMs = Some(<<50, 1>>) /\ lib.cdnMs = Some(<<100, 1>>)
  /\ Val(lib.ret) # Null /\ RatEq(Val(Val(lib.ret)), <<-100, 1>>)

(* ------------------------------- C23 ----------------------------------- *)
\* the phases of a trial as positions of runSingle
Navigating == "goto"
Scrolling == "autoScroll"
WaitingImages == {"waitForImages", "pollSleep"}
CollectingMetrics == "metrics"
Closing == "contextClose"

\* one step of runSingle keeps the order of the phases
PhaseOrderStep ==
  /\ pc' = Scrolling => pc = Navigating /\ trial'.navError = Null
  /\ pc' \in WaitingImages =>
       /\ pc = Scrolling \/ pc \in WaitingImages
       /\ trial'.navError = Null
  /\ pc' = CollectingMetrics => pc = Navigating \/ pc = Scrolling \/ pc \in WaitingImages
  /\ pc' = Closing => pc = CollectingMetrics
  \* a phase before the metrics is left for the next one or for the metrics
  /\ pc = Navigating => pc' \in {Scrolling, CollectingMetrics}
  /\ pc = Scrolling => pc' \in WaitingImages \cup {CollectingMetrics}
  /\ pc \in WaitingImages => pc' \in WaitingImages \cup {CollectingMetrics}
  /\ pc = CollectingMetrics => pc' = Closing
  \* an exception caught skips what is left of scrolling and waiting
  /\ trial.navError = Null /\ trial'.navError # Null =>
       /\ pc = Navigating \/ pc = Scrolling \/ pc = "waitForImages"
       /\ pc' = CollectingMetrics
       /\ trial'.polls = trial.polls
  \* the context is closed after the metrics only
  /\ ~trial.closeCalled /\ trial'.closeCalled => pc = Closing

\* C23: a trial of runSingle goes through navigating, scrolling, waiting for images,
\* collecting metrics and done in this order: scrolling starts after the navigation
\* returned, polling after the scrolling; an exception in one of them skips the
\* scrolling and waiting left, the page metrics are collected after success and
\* after failure, and the context is closed only after that.
C23_PhaseOrder == [][PhaseOrderStep]_vars

\* a trial whose navigation threw has returned: it never polled, and its context
\* was closed
C23_Witness ==
  /\ trial.caughtAt = Some("goto") /\ trial.navError # Null
  /\ trial.polls = 0 /\ trial.closeCalled /\ trial.result # Null

(* ------------------------------- C24 ----------------------------------- *)
\* the image results of the object runSingle returns
ImageResults(r) ==
  <<r.imagesLoadedMs, r.avgImageMs, r.imagesTotal, r.imagesLoaded, r.imagesFailed,
    r.imagesPending, r.timeout, r.timeoutReason>>

\* the image results that follow from what waitForImages or the catch block left
ImageResultsOf(t) ==
  LET s == Val(t.imageStats)
  IN <<RoundOpt(t.imagesLoadedMs),
       IF s.stats.avgImageMs = Null THEN Null
       ELSE Some(MathRound(Val(s.stats.avgImageMs)[1], 2 * Val(s.stats.avgImageMs)[2])),
       s.stats.total - s.stats.failed, s.stats.loaded, s.stats.failed, s.stats.pending,
       s.timeout, s.timeoutReason>>

\* the collection of the page metrics, failing or not, leaves the image results of
\* the trial alone and throws nothing
MetricsStep ==
  pc = "metrics" =>
    /\ trial'.imageStats = trial.imageStats
    /\ trial'.imagesLoadedMs = trial.imagesLoadedMs
    /\ trial'.navError = trial.navError
    /\ thrown' = thrown /\ pc' = "contextClose"

MetricsFrame ==
  trial.result # Null =>
    LET r == Val(trial.result)
    IN /\ ImageResults(r) = ImageResultsOf(trial)
       /\ trial.metricsThrew =>
            r.ttfbMs = Null /\ r.lcpMs = Null /\ r.userAgent = Null /\ r.viewport = Null
       /\ ~trial.metricsThrew =>
            r.ttfbMs # Null /\ r.lcpMs # Null /\ r.userAgent # Null /\ r.viewport # Null

\* C24: a failure of the collection of the page metrics in runSingle leaves the
\* image results as they are when it succeeds (imagesLoadedMs, avgImageMs, the image
\* counts, timeout and timeoutReason): only ttfbMs, lcpMs, userAgent and viewport are
\* null, and no error reaches the caller.
C24_MetricsFailureFrame == []MetricsFrame /\ [][MetricsStep]_vars

\* runSingle has returned the times of the images although the metrics threw
C24_Witness ==
  /\ trial.result # Null /\ trial.metricsThrew /\ ~thrown
  /\ Val(trial.result).imagesLoadedMs # Null /\ Val(trial.result).avgImageMs # Null
  /\ Val(trial.result).ttfbMs = Null /\ Val(trial.result).userAgent = Null

(* ------------------------------- C25 ----------------------------------- *)
HasStar(pattern) == \E k \in 1..Len(pattern) : pattern[k] = "*"

\* C25: for a host that is not empty matchHost(host, pattern) is anchored glob
\* matching, each * standing for any sequence of characters, the empty one included:
\* a pattern without * matches the identical host only, a leading or trailing *
\* frees that end, and the parts between the * occur in order without overlapping.
C25_MatchHostIsGlob ==
  LibReturned("matchHost") =>
    LET h == lib.host
        p == lib.pattern
        r == Val(lib.ret)
    IN /\ r <=> GlobMatch(h, p)
       /\ ~HasStar(p) => (r <=> h = p)
       /\ r /\ p # <<>> /\ p[1] # "*" => h[1] = p[1]
       /\ r /\ p # <<>> /\ p[Len(p)] # "*" => h[Len(h)] = p[Len(p)]

\* matchHost has refused a host in which the two parts of the pattern occur only
\* overlapping
C25_Witness ==
  /\ LibReturned("matchHost")
  /\ lib.host = <<"a", "b">> /\ lib.pattern = <<"a", "b", "*", "b">>
  /\ Val(lib.ret) = FALSE

(* ------------------------------- C26 ----------------------------------- *)
\* the positions of the images with a resource-timing entry, and of those that
\* finished loading with a natural size but without one
FullTiming(d) == {i \in DOMAIN d : d[i].timing # Null}
LoadedUntimed(d) == {i \in DOMAIN d : d[i].timing = Null /\ d[i].complete /\ d[i].natW > 0}

\* the sum of the durations of the images at the positions in I
RECURSIVE DurationSum(_, _)
DurationSum(d, I) ==
  IF I = {} THEN 0
  ELSE LET i == CHOOSE j \in I : TRUE
       IN Val(d[i].timing).duration + DurationSum(d, I \ {i})

\* C26: in a snapshot of collectImageTimings an image that finished loading with a
\* natural size but has no resource-timing entry counts as loaded and takes no
\* part in the durations: imagesOnlyMs is the greatest responseEnd minus the least
\* responseEnd - duration and avgImageMs the mean of the durations, both over the
\* images with timing only, and both are null when there is none.
C26_UntimedImages ==
  LibReturned("collectImageTimings") =>
    LET d == lib.imgData
        s == Val(lib.ret)
        T == FullTiming(d)
        lastEnd == CHOOSE e \in {Val(d[i].timing).responseEnd : i \in T} :
                     \A i \in T : Val(d[i].timing).responseEnd <= e
        firstStart ==
          CHOOSE b \in {Val(d[i].timing).responseEnd - Val(d[i].timing).duration : i \in T} :
            \A i \in T : b <= Val(d[i].timing).responseEnd - Val(d[i].timing).duration
    IN /\ s.loaded = Cardinality(T) + Cardinality(LoadedUntimed(d))
       /\ T = {} => s.imagesOnlyMs = Null /\ s.avgImageMs = Null
       /\ T # {} =>
            /\ s.imagesOnlyMs = Some(lastEnd - firstStart)
            /\ s.avgImageMs # Null
            /\ Val(s.avgImageMs)[2] > 0
            /\ Val(s.avgImageMs)[1] * Cardinality(T) = DurationSum(d, T) * Val(s.avgImageMs)[2]

\* a snapshot of an image without timing and one with: both count as loaded, the
\* span and the mean come from the timed one alone
C26_Witness ==
  /\ LibReturned("collectImageTimings")
  /\ Len(lib.imgData) = 2
  /\ Cardinality(LoadedUntimed(lib.imgData)) = 1 /\ Cardinality(FullTiming(lib.imgData)) = 1
  /\ Val(lib.ret).loaded = 2
  /\ Val(lib.ret).imagesOnlyMs # Null /\ Val(lib.ret).avgImageMs # Null

(* ------------------------------- C27 ----------------------------------- *)
\* the number of records of the list that satisfy Has
Count(records, Has(_)) == Cardinality({k \in DOMAIN records : Has(records[k])})

HasOriginMs(r) == r.variant = "origin" /\ r.images_loaded_ms # Null
HasCdnMs(r) == r.variant = "cdn" /\ r.images_loaded_ms # Null
HasTotalMs(r) == r.total_ms # Null

\* C27: the standard deviation is null whenever there are fewer than 2 samples:
\* stdDev(values) is null for a list of length 0 or 1, and originStddev and cdnStddev
\* of computeSummary and total_stddev_ms of computeImageStats are null when their
\* group has fewer than 2 samples that are not null.
C27_StddevNeedsTwoSamples ==
  /\ LibReturned("stdDev") /\ Len(lib.values) < 2 => Val(lib.ret) = Null
  /\ LibReturned("computeSummary") =>
       /\ Count(lib.records, HasOriginMs) < 2 => Val(lib.ret).originStddev = Null
       /\ Count(lib.records, HasCdnMs) < 2 => Val(lib.ret).cdnStddev = Null
  /\ LibReturned("computeImageStats") /\ Count(lib.records, HasTotalMs) < 2 =>
       Val(lib.ret).total_stddev_ms = Null

(* ------------------------------- C28 ----------------------------------- *)
\* the number of qualifying images of the snapshot the result of the trial was
\* computed on: none after a navigation failure
FinalSnapshotSize == IF trial.doc = Null THEN 0 ELSE Len(Val(trial.doc))

\* C28: in the result runSingle returns errorsCount equals imagesFailed and
\* imagesTotal is the total of the final snapshot minus its failed images, so that in
\* a record of the run errors_count = images_failed and images_total + images_failed
\* is the number of qualifying images of that snapshot (0 + 0 after a navigation
\* failure); images_total is never negative.
C28_CountsOfRecord ==
  /\ trial.result # Null =>
       LET r == Val(trial.result)
           s == Val(trial.imageStats).stats
       IN /\ r.errorsCount = r.imagesFailed
          /\ r.imagesTotal = s.total - s.failed
          /\ r.imagesTotal + r.imagesFailed = FinalSnapshotSize
          /\ r.imagesTotal >= 0
          /\ trial.navError # Null => r.imagesTotal = 0 /\ r.imagesFailed = 0
  /\ \A k \in 1..Len(rawRecords) :
       /\ rawRecords[k].errors_count = rawRecords[k].images_failed
       /\ rawRecords[k].images_total >= 0
  /\ TrialRecorded /\ trial.result # Null =>
       LastRecord.images_total + LastRecord.images_failed = FinalSnapshotSize

\* a trial on a page of one good and one broken image has been recorded
C28_Witness ==
  /\ TrialRecorded /\ trial.result # Null
  /\ FinalSnapshotSize = 2
  /\ LastRecord.images_total = 1 /\ LastRecord.images_failed = 1
  /\ LastRecord.errors_count = 1

(* ------------------------------- C30 ----------------------------------- *)
\* the events of the given kind in the trace of the withRetries call
RetryEvents(kind) == SelectSeq(lib.trace, LAMBDA e : e[1] = kind)

\* C30: withRetries stops at the first successful invocation: when the operation
\* first succeeds on attempt k, withRetries has returned the result of that
\* invocation after exactly the invocations 1..k and k-1 observer calls (none without an
\* observer), and the successful invocation is the last thing it did; the operation
\* is invoked at least once before withRetries ends and never more than
\* max(1, attempts) times, attempts <= 0 counting as 1.
C30_StopsAtFirstSuccess ==
  lib.fn = "withRetries" =>
    /\ lib.total = Max2(1, lib.attempts)
    /\ Len(RetryEvents("fn")) <= Max2(1, lib.attempts)
    /\ lib.at \in {"returned", "threw"} => Len(RetryEvents("fn")) >= 1
    /\ lib.ret # Null =>
         LET k == Val(lib.ret)
         IN /\ k \in 1..Max2(1, lib.attempts)
            /\ lib.at = "returned" /\ lib.threw = Null
            /\ RetryEvents("fn") = [i \in 1..k |-> <<"fn", i>>]
            /\ Len(RetryEvents("onRetry")) = IF lib.hasOnRetry THEN k - 1 ELSE 0
            /\ Len(RetryEvents("sleep")) = IF lib.backoffMs > 0 THEN k - 1 ELSE 0
            /\ lib.trace[Len(lib.trace)] = <<"fn", k>>

\* the operation failed once and then succeeded on the second of three attempts:
\* two invocations, one observer call, one delay, and nothing after the success
C30_Witness ==
  /\ lib.fn = "withRetries" /\ lib.attempts = 3 /\ lib.hasOnRetry /\ lib.backoffMs = 100
  /\ lib.ret = Some(2) /\ lib.at = "returned"
  /\ lib.trace = <<(<<"fn", 1>>), (<<"onRetry", 1, 100>>), (<<"sleep", 100>>), (<<"fn", 2>>)>>

(* ------------------------------- C29 ----------------------------------- *)
\* the callbacks that call finish
Finishers == {"end", "resError", "reqError"}

\* the timeout callback ran before any callback reached finish
TimeoutBeforeFinish ==
  \E i \in 1..Len(lib.calls) :
    /\ lib.calls[i] = "timeout"
    /\ \A j \in 1..(i - 1) : lib.calls[j] \notin Finishers

\* the promise is resolved at most once, by the first callback to reach finish
ResolvedOnce ==
  /\ Len(lib.resolved) <= 1
  /\ lib.done <=> Len(lib.resolved) = 1
  /\ lib.done <=> \E i \in 1..Len(lib.calls) : lib.calls[i] \in Finishers

\* C29: under every interleaving of the response end, response error, request
\* error and timeout callbacks fetchUrlMetrics resolves its promise at most once, with
\* the payload of the first callback to reach finish, and when the timeout fired before
\* the response ended the resolved result has timeout = true, error = "timeout" and
\* totalMs = null.
C29_FetchResolvesOnce ==
  lib.fn = "fetchUrlMetrics" =>
    /\ ResolvedOnce
    /\ TimeoutBeforeFinish /\ lib.done =>
         /\ lib.resolved[1].timeout
         /\ lib.resolved[1].error = Some("timeout")
         /\ lib.resolved[1].totalMs = Null

====
